---- MODULE Spec2Model ----
(***************************************************************************)
(* A model of tg-state-manager: the StateManager engine (state.go), the    *)
(* storage contract (storage.go) and the in-memory backend (inmemory.go).  *)
(*                                                                         *)
(* A Handle call is modelled as a goroutine walking through the body of    *)
(* StateManager.Handle; it can be interleaved with other Handle calls at   *)
(* every storage operation and around every user callback.                 *)
(***************************************************************************)
EXTENDS Integers, Sequences, FiniteSets, TLC

\* ------------------------------------------------------------------------
\* Bounds of the model
\* ------------------------------------------------------------------------

\* number of goroutines that may be inside Handle at the same time
NumProcs == 2
\* number of routing keys (chat ids)
NumKeys == 1
\* longest batch passed to one Add call
MaxBatch == 2
\* number of events fed to the engine in the conversation scenario
MaxEvents == 6
\* number of Handle calls made while goroutines run concurrently
MaxCalls == 3

Procs == 1..NumProcs
Keys == 1..NumKeys

\* ------------------------------------------------------------------------
\* Errors (state.go:8-15).  An error is the chain of messages obtained by
\* unwrapping it; the nil error is the empty chain.
\* ------------------------------------------------------------------------

Nil == <<>>
ErrValidation == <<"validation error">>
ErrDuplicateState == <<"duplicate state name">>
ErrEmptyStateName == <<"empty state name">>
\* fmt.Errorf("%w: %s", err, msg)
Wrap(err, msg) == <<msg>> \o err
\* an error of a callback that is not a validation failure
ErrCallback == <<"send failed">>
\* an error of the storage backend
ErrStorage == <<"storage failure">>

\* errors.Is(err, target): some error of err's chain is target
ErrorsIs(err, target) ==
    \E i \in 1..Len(err) : err[i] = target[1]

\* state.go:18
NopState == "<nop>"

\* ------------------------------------------------------------------------
\* Texts are sequences of characters, so that strconv.Atoi can be computed
\* ------------------------------------------------------------------------

Digits == <<"0", "1", "2", "3", "4", "5", "6", "7", "8", "9">>

IsDigit(c) == \E i \in 1..10 : Digits[i] = c

DigitVal(c) == (CHOOSE i \in 1..10 : Digits[i] = c) - 1

RECURSIVE DigitsVal(_, _)
DigitsVal(s, acc) ==
    IF s = <<>> THEN acc
    ELSE DigitsVal(Tail(s), 10 * acc + DigitVal(Head(s)))

\* strconv.Atoi: an optional sign followed by at least one decimal digit
Atoi(s) ==
    LET signed == s # <<>> /\ Head(s) \in {"+", "-"}
        body == IF signed THEN Tail(s) ELSE s
        ok == body # <<>> /\ \A i \in 1..Len(body) : IsDigit(body[i])
        mag == IF ok THEN DigitsVal(body, 0) ELSE 0
    IN  [ok |-> ok,
         val |-> IF signed /\ Head(s) = "-" THEN 0 - mag ELSE mag]

TxtEmpty == <<>>
TxtJohnDoe == <<"J", "o", "h", "n", " ", "D", "o", "e">>
TxtNotANumber == <<"n", "o", "t", " ", "a", " ", "n", "u", "m", "b", "e", "r">>
Txt30 == <<"3", "0">>
TxtMinus1 == <<"-", "1">>
TxtUnitedStates == <<"U", "S">>
TxtExtra == <<"e", "x", "t", "r", "a">>

\* ------------------------------------------------------------------------
\* Records (storage.go:4-8, state.go:21-25, state_test.go:18-28)
\* ------------------------------------------------------------------------

\* the payload S of the tests: UserProfile{Name, Age, Country}
ZeroData == [Name |-> <<>>, Age |-> 0, Country |-> <<>>]

\* the zero value of UserState[S]
ZeroUserState == [CurrentState |-> "", Data |-> ZeroData, PromptSent |-> FALSE]

\* MockUpdate{ChatID, Text}
MockUpdate(id, text) == [ChatID |-> id, Text |-> text]

\* keyFunc of the tests: func(u MockUpdate) int64 { return u.ChatID }
keyFunc(update) == update.ChatID

\* A State: its Name and what its two callbacks are.  Prompt and Handle are
\* "nil" for a nil callback, else the name of the callback's behaviour.
State(name, prompt, handle) == [Name |-> name, Prompt |-> prompt, Handle |-> handle]


\* ------------------------------------------------------------------------
\* User callbacks.  The engine treats them as opaque: "any" is a callback
\* that may do anything a callback can do; "ok", "name", "age", "country"
\* are the callbacks of state_test.go.
\* ------------------------------------------------------------------------

\* largest Age an arbitrary callback writes into the payload
MaxAge == 1

\* payloads an arbitrary callback may leave behind
Payloads == {[ZeroData EXCEPT !.Age = a] : a \in 0..MaxAge}

\* next-state names an arbitrary handler may return
NextNames == {"", NopState, "a", "b"}

\* errors an arbitrary handler may return
HandlerErrors == {Nil, ErrValidation, Wrap(ErrValidation, "bad input"), ErrCallback}

\* state.Prompt(update, &userState.Data): the possible (err, payload)
PromptResults(st, upd, data) ==
    IF st.Prompt = "ok"
    THEN {[err |-> Nil, data |-> data]}
    ELSE {[err |-> e, data |-> d] : e \in {Nil, ErrCallback}, d \in Payloads}

\* state.Handle(update, &userState.Data): the possible (next, err, payload)
HandleResults(st, upd, data) ==
    CASE st.Handle = "name" ->
           IF upd.Text = <<>>
           THEN {[next |-> "", err |-> ErrValidation, data |-> data]}
           ELSE {[next |-> "ask_age", err |-> Nil,
                  data |-> [data EXCEPT !.Name = upd.Text]]}
      [] st.Handle = "age" ->
           LET a == Atoi(upd.Text)
           IN  IF ~a.ok \/ a.val < 0
               THEN {[next |-> "", err |-> ErrValidation, data |-> data]}
               ELSE {[next |-> "ask_country", err |-> Nil,
                      data |-> [data EXCEPT !.Age = a.val]]}
      [] st.Handle = "country" ->
           IF upd.Text = <<>>
           THEN {[next |-> "", err |-> ErrValidation, data |-> data]}
           ELSE {[next |-> "", err |-> Nil,
                  data |-> [data EXCEPT !.Country = upd.Text]]}
      [] OTHER ->
           {[next |-> n, err |-> e, data |-> d] :
                n \in NextNames, e \in HandlerErrors, d \in Payloads}

\* createNameState, createAgeState, createCountryState
NameState == State("ask_name", "ok", "name")
AgeState == State("ask_age", "ok", "age")
CountryState == State("ask_country", "ok", "country")

\* the states offered to Add outside the scenario: with and without a
\* prompt, one named like the sentinel, one reusing a name with another
\* definition (and no handler), one with the empty name
StatePool ==
    { State("a", "any", "any"),
      State("b", "nil", "any"),
      State(NopState, "any", "any"),
      State("a", "nil", "nil"),
      State("", "any", "any") }

\* names offered to SetInitialState
InitialNames == {"", "a", "b"}

\* ------------------------------------------------------------------------
\* StateManager.Add (state.go:46-58)
\* ------------------------------------------------------------------------

\* m.states[state.Name] = state
Register(table, st) ==
    [n \in DOMAIN table \cup {st.Name} |-> IF n = st.Name THEN st ELSE table[n]]

\* Add without the check for a name that is taken: the later definition
\* replaces the earlier one
RECURSIVE AddLoopReplaces(_, _, _)
AddLoopReplaces(table, batch, i) ==
    IF i > Len(batch) THEN [states |-> table, err |-> Nil]
    ELSE IF batch[i].Name = "" THEN [states |-> table, err |-> ErrEmptyStateName]
    ELSE AddLoopReplaces(Register(table, batch[i]), batch, i + 1)

\* Add without the check for an empty name
RECURSIVE AddLoopAdmitsEmpty(_, _, _)
AddLoopAdmitsEmpty(table, batch, i) ==
    IF i > Len(batch) THEN [states |-> table, err |-> Nil]
    ELSE IF batch[i].Name \in DOMAIN table
         THEN [states |-> table, err |-> Wrap(ErrDuplicateState, batch[i].Name)]
    ELSE AddLoopAdmitsEmpty(Register(table, batch[i]), batch, i + 1)

\* the loop of Add over the batch, from its i-th state on
RECURSIVE AddLoop(_, _, _)
AddLoop(table, batch, i) ==
    IF i > Len(batch) THEN [states |-> table, err |-> Nil]
    ELSE IF batch[i].Name = "" THEN [states |-> table, err |-> ErrEmptyStateName]
    ELSE IF batch[i].Name \in DOMAIN table
         THEN [states |-> table, err |-> Wrap(ErrDuplicateState, batch[i].Name)]
    ELSE AddLoop(Register(table, batch[i]), batch, i + 1)

\* NewStateManager: make(map[string]*State)
EmptyTable == [n \in {} |-> State("", "nil", "nil")]

\* ------------------------------------------------------------------------
\* InMemoryStorage (inmemory.go).  The map is a function whose domain is
\* the set of ids that were Set.
\* ------------------------------------------------------------------------

EmptyStorage == [k \in {} |-> ZeroUserState]

\* Get that answers a missing key with a record
StorageGetFabricates(store, id) ==
    IF id \in DOMAIN store
    THEN [userState |-> store[id], exists |-> TRUE]
    ELSE [userState |-> ZeroUserState, exists |-> TRUE]

\* state, ok := s.states[id]
StorageGet(store, id) ==
    IF id \in DOMAIN store
    THEN [userState |-> store[id], exists |-> TRUE]
    ELSE [userState |-> ZeroUserState, exists |-> FALSE]

\* Set replaces a record but does not create one
StorageSetExisting(store, id, us) ==
    [k \in DOMAIN store |-> IF k = id THEN us ELSE store[k]]

\* Set of a record whose flow has ended removes the record
StorageSetClearsEnded(store, id, us) ==
    IF us.CurrentState = ""
    THEN [k \in DOMAIN store \ {id} |-> store[k]]
    ELSE [k \in DOMAIN store \cup {id} |-> IF k = id THEN us ELSE store[k]]

\* a store with one slot: Set replaces the record of every key
StorageSetAllKeys(store, id, us) ==
    [k \in DOMAIN store \cup {id} |-> us]

\* s.states[id] = userState
StorageSet(store, id, us) ==
    [k \in DOMAIN store \cup {id} |-> IF k = id THEN us ELSE store[k]]

\* ------------------------------------------------------------------------
\* The decisions of StateManager.Handle (state.go:66-118)
\* ------------------------------------------------------------------------

\* ------------------------------------------------------------------------
\* RedisStorage (redis.go).  The server keeps, per key, the value of the
\* last SET; the value is the json.Marshal of the record.  A JSON text is
\* modelled by its lexemes; a string lexeme is a sequence of tokens, a
\* token being a character written as it is or an escape.
\* ------------------------------------------------------------------------

\* a byte that is not valid UTF-8, and the rune U+FFFD
BadByte == "0xFF"
Replacement == "U+FFFD"

\* encoding/json, string encoding: '<', '>' and '&' are written as the
\* escapes u003c, u003e and u0026, and a byte that is not valid UTF-8 as
\* the escape ufffd
EscapeRune(c) ==
    CASE c = "<" -> "u003c"
      [] c = ">" -> "u003e"
      [] c = "&" -> "u0026"
      [] c = BadByte -> "ufffd"
      [] OTHER -> c

\* encoding/json, string decoding of one token
UnescapeToken(t) ==
    CASE t = "u003c" -> "<"
      [] t = "u003e" -> ">"
      [] t = "u0026" -> "&"
      [] t = "ufffd" -> Replacement
      [] OTHER -> t

\* strconv.Itoa
RECURSIVE Itoa(_)
Itoa(n) ==
    IF n < 0 THEN <<"-">> \o Itoa(0 - n)
    ELSE IF n < 10 THEN <<Digits[n + 1]>>
    ELSE Itoa(n \div 10) \o <<Digits[(n % 10) + 1]>>

\* the characters of the state names that records carry
NameText(n) ==
    CASE n = "" -> <<>>
      [] n = "a" -> <<"a">>
      [] n = "b" -> <<"b">>
      [] n = NopState -> <<"<", "n", "o", "p", ">">>

NameOfText(t) == CHOOSE n \in {"", "a", "b", NopState} : NameText(n) = t

MarshalString(s) == [kind |-> "string", text |-> [i \in 1..Len(s) |-> EscapeRune(s[i])]]
MarshalInt(n) == [kind |-> "number", text |-> Itoa(n)]
MarshalBool(b) ==
    [kind |-> "bool", text |-> IF b THEN <<"t", "r", "u", "e">> ELSE <<"f", "a", "l", "s", "e">>]

\* json.Marshal(state), redis.go:56; it cannot fail on these field types
Marshal(us) ==
    [CurrentState |-> MarshalString(NameText(us.CurrentState)),
     Data |-> [Name |-> MarshalString(us.Data.Name),
               Age |-> MarshalInt(us.Data.Age),
               Country |-> MarshalString(us.Data.Country)],
     PromptSent |-> MarshalBool(us.PromptSent)]

\* the error of json.Unmarshal
ErrUnmarshal == <<"json: cannot unmarshal">>

UnmarshalString(x) == [i \in 1..Len(x.text) |-> UnescapeToken(x.text[i])]

\* a JSON number that fits a Go int
IsInt(x) == x.kind = "number" /\ x.text # <<>> /\ Head(x.text) # "+" /\ Atoi(x.text).ok

\* json.Unmarshal(data, &state), redis.go:48
Unmarshal(doc) ==
    IF /\ doc.CurrentState.kind = "string"
       /\ doc.Data.Name.kind = "string"
       /\ IsInt(doc.Data.Age)
       /\ doc.Data.Country.kind = "string"
       /\ doc.PromptSent.kind = "bool"
    THEN [val |-> [CurrentState |-> NameOfText(UnmarshalString(doc.CurrentState)),
                   Data |-> [Name |-> UnmarshalString(doc.Data.Name),
                             Age |-> Atoi(doc.Data.Age.text).val,
                             Country |-> UnmarshalString(doc.Data.Country)],
                   PromptSent |-> doc.PromptSent.text = <<"t", "r", "u", "e">>],
          err |-> Nil]
    ELSE [val |-> ZeroUserState, err |-> ErrUnmarshal]

\* what storage.Get returns
GetResult(us, ex, err) == [userState |-> us, exists |-> ex, err |-> err]

\* the reply of the server to GET: redis.Nil, a transport error, or the value
ReplyNil == [kind |-> "nil", doc |-> Marshal(ZeroUserState), err |-> Nil]
ReplyErr == [kind |-> "error", doc |-> Marshal(ZeroUserState), err |-> ErrStorage]
ReplyBytes(doc) == [kind |-> "bytes", doc |-> doc, err |-> Nil]

\* RedisStorage.Get that reports a missing key as an error
RedisGetMissingIsError(reply) ==
    IF reply.kind = "nil" THEN GetResult(ZeroUserState, FALSE, <<"redis: nil">>)
    ELSE IF reply.kind = "error" THEN GetResult(ZeroUserState, FALSE, reply.err)
    ELSE LET u == Unmarshal(reply.doc)
         IN  IF u.err # Nil THEN GetResult(ZeroUserState, FALSE, u.err)
             ELSE GetResult(u.val, TRUE, Nil)

\* RedisStorage.Get, redis.go:32-53, from the server's reply on
RedisGet(reply) ==
    IF reply.kind = "nil" THEN GetResult(ZeroUserState, FALSE, Nil)
    ELSE IF reply.kind = "error" THEN GetResult(ZeroUserState, FALSE, reply.err)
    ELSE LET u == Unmarshal(reply.doc)
         IN  IF u.err # Nil THEN GetResult(ZeroUserState, FALSE, u.err)
             ELSE GetResult(u.val, TRUE, Nil)

\* GET key on the server
ServerGet(db, k) == IF k \in DOMAIN db THEN ReplyBytes(db[k]) ELSE ReplyNil

\* SET key value, without expiry
ServerSet(db, k, doc) == [j \in DOMAIN db \cup {k} |-> IF j = k THEN doc ELSE db[j]]

\* a value that a program with another payload type left under the key:
\* the age is a JSON string
ForeignDoc == [Marshal(ZeroUserState) EXCEPT !.Data.Age = MarshalString(<<"x">>)]

\* the seeding with the initial state left out
SeedNever(us, ex, initial) == us

\* a record left behind by NopState restarts the conversation
SeedAfterNop(us, ex, initial) ==
    IF ~ex \/ us.CurrentState = NopState
    THEN [us EXCEPT !.CurrentState = initial, !.PromptSent = FALSE]
    ELSE us

\* a record whose conversation has ended is seeded again
SeedEnded(us, ex, initial) ==
    IF ~ex \/ us.CurrentState = ""
    THEN [us EXCEPT !.CurrentState = initial]
    ELSE us

\* if !exists { userState.CurrentState = m.initialState }
Seed(us, ex, initial) ==
    IF ~ex THEN [us EXCEPT !.CurrentState = initial] ELSE us

\* the `!` before userState.PromptSent left out
PromptDueInverted(st, us) == st.Prompt # "nil" /\ us.PromptSent

\* state.Prompt != nil && !userState.PromptSent
PromptDue(st, us) == st.Prompt # "nil" /\ ~us.PromptSent

\* the assignment of the next state's name left out
TransitionKeepsName(us, next) == [us EXCEPT !.PromptSent = FALSE]

\* the transition marks the prompt of the next state as sent
TransitionMarksSent(us, next) ==
    [us EXCEPT !.CurrentState = next, !.PromptSent = TRUE]

\* the reset of PromptSent left out
TransitionKeepsFlag(us, next) == [us EXCEPT !.CurrentState = next]

\* userState.CurrentState = nextState; userState.PromptSent = false
Transition(us, next) ==
    [us EXCEPT !.CurrentState = next, !.PromptSent = FALSE]

\* nextState == "" || nextState == NopState
EndOfFlow(next) == next = "" \/ next = NopState

\* the prompt of the next state is left to the next event
NextHasPromptNever(table, next) == FALSE

\* next, exists := m.states[nextState]; exists && next.Prompt != nil
NextHasPrompt(table, next) ==
    next \in DOMAIN table /\ table[next].Prompt # "nil"

\* sendPrompt forgets to set the flag
MarkPromptSentForgotten(us) == us

\* sendPrompt after the prompt succeeded: userState.PromptSent = true
MarkPromptSent(us) == [us EXCEPT !.PromptSent = TRUE]

\* a callback writes the payload through the pointer &userState.Data
WithData(us, data) == [us EXCEPT !.Data = data]

\* if errors.Is(err, ErrValidation)
IsValidation(err) == ErrorsIs(err, ErrValidation)


\* ------------------------------------------------------------------------
\* State
\* ------------------------------------------------------------------------

VARIABLES
    states,        \* StateManager.states: name -> State
    initialState,  \* StateManager.initialState
    storage,       \* the backend's map: key -> UserState
    pc,            \* where each goroutine is inside Handle
    update,        \* Handle's argument
    userState,     \* Handle's local userState
    exists,        \* Handle's local exists
    state,         \* Handle's local state (or next, in the second sendPrompt)
    nextState,     \* Handle's local nextState
    ret,           \* what Handle returned: (consumed, err)
    rd,            \* history: what the call's storage.Get returned
    ev,            \* history: the callbacks and Sets of the call, in order
    stay,          \* history: per key, how the current stay began and the
                   \*          prompts invoked since
    hist,          \* history of the scenario: one entry per finished call
    calls,         \* history: the number of concurrent-phase Handle calls begun
    prev,          \* history: per key, how the last finished call went
    added,         \* history: the last Add call, its batch, result and table
    initSet,       \* history: the last SetInitialState call
    backend,       \* the StateStorage implementation the factory returned
    mu,            \* InMemoryStorage.mu: who holds the RWMutex
    busy,          \* a write of the map InMemoryStorage.states is under way
    remote,        \* the Redis server: key -> value
    storeOp,       \* the storage operation each goroutine is in
    everSet        \* history: the keys some Set was called for

mgr == <<states, initialState>>
locals == <<pc, update, userState, exists, state, nextState, nextState, ret, rd, ev>>
ghosts == <<stay>>
logs == <<hist, calls, prev>>
store == <<backend, mu, busy, remote, storeOp, everSet>>
others == <<added, initSet, store>>
vars == <<states, initialState, storage, pc, update, userState, exists, state,
          nextState, ret, rd, ev, stay, hist, calls, prev,
          added, initSet, backend, mu, busy, remote, storeOp, everSet>>

NoState == State("", "nil", "nil")
NoUpdate == MockUpdate(0, <<>>)
NoRet == [consumed |-> FALSE, err |-> Nil]
NoRead == [userState |-> ZeroUserState, exists |-> FALSE]
NoStay == [entered |-> FALSE, name |-> "", prompts |-> 0]
NoPrev == [ev |-> <<>>, ret |-> NoRet]

Ret(consumed, err) == [consumed |-> consumed, err |-> err]

\* an event nobody handled is reported as consumed
IgnoredAsConsumed == Ret(TRUE, Nil)

\* state.go:79, 89: return false, nil
Ignored == Ret(FALSE, Nil)

\* an entry of ev: a callback of state `name` with the call's local record as
\* the callback left it, or a storage.Set of a record
Ev(op, name, err, rec) == [op |-> op, name |-> name, err |-> err, rec |-> rec]

\* no Add and no SetInitialState call was made yet
NoAdd == [batch |-> <<>>, err |-> Nil, before |-> EmptyTable]
NoInitSet == [name |-> "", early |-> FALSE]

\* sync.RWMutex, unlocked
Unlocked == [writer |-> 0, readers |-> {}]

\* a goroutine that is in no storage operation
NoOp == [pc |-> "idle", kind |-> "", key |-> 0, rec |-> ZeroUserState,
         reply |-> "", res |-> GetResult(ZeroUserState, FALSE, Nil),
         mine |-> NoRead]

\* the engine runs on NewInMemoryStorage(); nothing uses the backend directly
OthersInit ==
    /\ added = NoAdd
    /\ initSet = NoInitSet
    /\ backend = "InMemory"
    /\ mu = Unlocked
    /\ busy = FALSE
    /\ remote = [k \in {} |-> <<>>]
    /\ storeOp = [p \in Procs |-> NoOp]
    /\ everSet = {}

\* NewStateManager(storage, keyFunc); no goroutine is in Handle
EngineInit ==
    /\ states = EmptyTable
    /\ initialState = ""
    /\ storage = EmptyStorage
    /\ pc = [p \in Procs |-> "idle"]
    /\ update = [p \in Procs |-> NoUpdate]
    /\ userState = [p \in Procs |-> ZeroUserState]
    /\ exists = [p \in Procs |-> FALSE]
    /\ state = [p \in Procs |-> NoState]
    /\ nextState = [p \in Procs |-> ""]
    /\ ret = [p \in Procs |-> NoRet]
    /\ rd = [p \in Procs |-> NoRead]
    /\ ev = [p \in Procs |-> <<>>]
    /\ stay = [k \in Keys |-> NoStay]
    /\ hist = <<>>
    /\ calls = 0
    /\ prev = [k \in Keys |-> NoPrev]

\* NewStateManager(NewInMemoryStorage(), keyFunc); no goroutine is in Handle
Init == EngineInit /\ OthersInit

AllIdle == \A p \in Procs : pc[p] = "idle"

\* ------------------------------------------------------------------------
\* Setup: Add and SetInitialState (state.go:46-63).  The table is a plain
\* Go map, so they run while no goroutine is inside Handle.
\* ------------------------------------------------------------------------

Batches == UNION {[1..n -> StatePool] : n \in 0..MaxBatch}

\* the manager is set up before the goroutines start to feed it events
SetupDone == calls > 0

Add(batch) ==
    /\ AllIdle
    /\ states' = AddLoop(states, batch, 1).states
    /\ UNCHANGED <<others, initialState, storage, locals, ghosts, logs>>

SetInitialState(name) ==
    /\ AllIdle
    /\ initialState' = name
    /\ UNCHANGED <<others, states, storage, locals, ghosts, logs>>


\* sm.Add(states...), with what the caller passed and got back
AddCall(batch) ==
    /\ AllIdle
    /\ LET r == AddLoop(states, batch, 1)
       IN  /\ states' = r.states
           /\ added' = [batch |-> batch, err |-> r.err, before |-> states]
    /\ UNCHANGED <<initialState, storage, locals, ghosts, logs,
                   initSet, store>>

\* SetInitialState that refuses a name that is not registered yet
SetInitialCallChecked(name) ==
    /\ AllIdle
    /\ initialState' = IF name \in DOMAIN states THEN name ELSE initialState
    /\ initSet' = [name |-> name, early |-> name \notin DOMAIN states]
    /\ UNCHANGED <<states, storage, locals, ghosts, logs,
                   added, store>>

\* sm.SetInitialState(name), with what the caller asked for and whether the
\* name was registered at that time
SetInitialCall(name) ==
    /\ AllIdle
    /\ initialState' = name
    /\ initSet' = [name |-> name, early |-> name \notin DOMAIN states]
    /\ UNCHANGED <<states, storage, locals, ghosts, logs,
                   added, store>>

SetupAdd(batch) ==
    /\ ~SetupDone
    /\ Add(batch)

SetupSetInitialState(name) ==
    /\ ~SetupDone
    /\ SetInitialState(name)

\* ------------------------------------------------------------------------
\* StateManager.Handle (state.go:66-118) and sendPrompt (state.go:121-127)
\* ------------------------------------------------------------------------

\* a state without a handler sends its prompt again instead of letting the
\* event pass
DispatchRepromptsNoHandler(table, us) ==
    IF us.CurrentState \notin DOMAIN table THEN "ignore"
    ELSE IF PromptDue(table[us.CurrentState], us) THEN "prompt"
    ELSE IF table[us.CurrentState].Handle = "nil"
         THEN IF table[us.CurrentState].Prompt # "nil" THEN "prompt" ELSE "ignore"
    ELSE "handle"

\* state.go:77-98: where the call goes once userState is known
Dispatch(table, us) ==
    IF us.CurrentState \notin DOMAIN table THEN "ignore"
    ELSE IF PromptDue(table[us.CurrentState], us) THEN "prompt"
    ELSE IF table[us.CurrentState].Handle = "nil" THEN "ignore"
    ELSE "handle"

\* state.go:107-117: where the call goes once the transition is stored
AfterTransition(table, next) ==
    IF EndOfFlow(next) THEN "done"
    ELSE IF NextHasPrompt(table, next) THEN "prompt"
    ELSE "done"

\* history: a prompt was invoked for the key
CountPrompt(s) == [s EXCEPT !.prompts = IF @ < 2 THEN @ + 1 ELSE 2]

\* history: the key enters a state (it is seeded with the initial state, or
\* a handler named a registered state other than "" and NopState) or not
EnterState(entered, name) == [entered |-> entered, name |-> name, prompts |-> 0]

\* state.go:67-90: storage.Get succeeded; seed, look the state up, dispatch
BeginCore(p, u) ==
    LET key == keyFunc(u)
        got == StorageGet(storage, key)
        us == Seed(got.userState, got.exists, initialState)
        to == Dispatch(states, us)
    IN  /\ pc[p] = "idle"
        /\ update' = [update EXCEPT ![p] = u]
        /\ rd' = [rd EXCEPT ![p] = got]
        /\ exists' = [exists EXCEPT ![p] = got.exists]
        /\ userState' = [userState EXCEPT ![p] = us]
        /\ state' = [state EXCEPT ![p] =
                IF to = "ignore" THEN NoState ELSE states[us.CurrentState]]
        /\ pc' = [pc EXCEPT ![p] = IF to = "ignore" THEN "done" ELSE to]
        /\ ret' = [ret EXCEPT ![p] = Ignored]
        /\ stay' = IF ~got.exists /\ initialState \in DOMAIN states
                   THEN [stay EXCEPT ![key] = EnterState(TRUE, initialState)]
                   ELSE stay
        /\ UNCHANGED <<others, mgr, storage, nextState, ev>>

Begin(p, u) ==
    /\ calls < MaxCalls
    /\ BeginCore(p, u)
    /\ calls' = calls + 1
    /\ UNCHANGED <<others, hist, prev>>

\* state.go:68-71: storage.Get failed
GetErr(p, u) ==
    /\ pc[p] = "idle"
    /\ calls < MaxCalls
    /\ calls' = calls + 1
    /\ update' = [update EXCEPT ![p] = u]
    /\ pc' = [pc EXCEPT ![p] = "done"]
    /\ ret' = [ret EXCEPT ![p] = Ret(FALSE, ErrStorage)]
    /\ UNCHANGED <<others, mgr, storage, userState, exists, state, nextState, rd, ev, ghosts, hist, prev>>

\* state.go:122-125: state.Prompt returned nil
Prompt(p) ==
    /\ pc[p] = "prompt"
    /\ \E r \in PromptResults(state[p], update[p], userState[p].Data) :
         /\ r.err = Nil
         /\ userState' = [userState EXCEPT ![p] = MarkPromptSent(WithData(@, r.data))]
         /\ ev' = [ev EXCEPT ![p] = Append(@, Ev("Prompt", state[p].Name, Nil, WithData(userState[p], r.data)))]
    /\ pc' = [pc EXCEPT ![p] = "setPrompt"]
    /\ stay' = [stay EXCEPT ![keyFunc(update[p])] = CountPrompt(@)]
    /\ UNCHANGED <<others, mgr, storage, update, exists, state, nextState, ret, rd, logs>>

\* a prompt that failed is still marked as sent, and the mark is stored
PromptErrMarksSent(p) ==
    /\ pc[p] = "prompt"
    /\ \E r \in PromptResults(state[p], update[p], userState[p].Data) :
         /\ r.err # Nil
         /\ userState' = [userState EXCEPT ![p] = MarkPromptSent(WithData(@, r.data))]
         /\ storage' = StorageSet(storage, keyFunc(update[p]),
                                  MarkPromptSent(WithData(userState[p], r.data)))
         /\ ev' = [ev EXCEPT ![p] = Append(@, Ev("Prompt", state[p].Name, r.err, WithData(userState[p], r.data)))]
         /\ ret' = [ret EXCEPT ![p] = Ret(TRUE, r.err)]
    /\ pc' = [pc EXCEPT ![p] = "done"]
    /\ stay' = [stay EXCEPT ![keyFunc(update[p])] = CountPrompt(@)]
    /\ UNCHANGED <<others, mgr, update, exists, state, nextState, rd, logs>>

\* a failing prompt takes back the transition stored before it
PromptErrRollsBack(p) ==
    /\ pc[p] = "prompt"
    /\ \E r \in PromptResults(state[p], update[p], userState[p].Data) :
         /\ r.err # Nil
         /\ userState' = [userState EXCEPT ![p] = WithData(@, r.data)]
         /\ ev' = [ev EXCEPT ![p] = Append(@, Ev("Prompt", state[p].Name, r.err, WithData(userState[p], r.data)))]
         /\ ret' = [ret EXCEPT ![p] = Ret(TRUE, r.err)]
    /\ storage' = IF rd[p].exists
                  THEN StorageSet(storage, keyFunc(update[p]), rd[p].userState)
                  ELSE storage
    /\ pc' = [pc EXCEPT ![p] = "done"]
    /\ stay' = [stay EXCEPT ![keyFunc(update[p])] = CountPrompt(@)]
    /\ UNCHANGED <<others, mgr, update, exists, state, nextState, rd, logs>>

\* state.go:122-124: state.Prompt returned an error (state.go:84, 114)
PromptErr(p) ==
    /\ pc[p] = "prompt"
    /\ \E r \in PromptResults(state[p], update[p], userState[p].Data) :
         /\ r.err # Nil
         /\ userState' = [userState EXCEPT ![p] = WithData(@, r.data)]
         /\ ev' = [ev EXCEPT ![p] = Append(@, Ev("Prompt", state[p].Name, r.err, WithData(userState[p], r.data)))]
         /\ ret' = [ret EXCEPT ![p] = Ret(TRUE, r.err)]
    /\ pc' = [pc EXCEPT ![p] = "done"]
    /\ stay' = [stay EXCEPT ![keyFunc(update[p])] = CountPrompt(@)]
    /\ UNCHANGED <<others, mgr, storage, update, exists, state, nextState, rd, logs>>

\* after the prompt is delivered the same event is passed on to the handler
SetPromptThenHandle(p) ==
    /\ pc[p] = "setPrompt"
    /\ storage' = StorageSet(storage, keyFunc(update[p]), userState[p])
    /\ ev' = [ev EXCEPT ![p] = Append(@, Ev("Set", "", Nil, userState[p]))]
    /\ ret' = [ret EXCEPT ![p] = Ret(TRUE, Nil)]
    /\ pc' = [pc EXCEPT ![p] = IF state[p].Handle # "nil" THEN "handle" ELSE "done"]
    /\ UNCHANGED <<others, mgr, update, userState, exists, state, nextState, rd, ghosts, logs>>

\* state.go:126: the Set of sendPrompt succeeded (state.go:84, 114)
SetPrompt(p) ==
    /\ pc[p] = "setPrompt"
    /\ storage' = StorageSet(storage, keyFunc(update[p]), userState[p])
    /\ ev' = [ev EXCEPT ![p] = Append(@, Ev("Set", "", Nil, userState[p]))]
    /\ ret' = [ret EXCEPT ![p] = Ret(TRUE, Nil)]
    /\ pc' = [pc EXCEPT ![p] = "done"]
    /\ UNCHANGED <<others, mgr, update, userState, exists, state, nextState, rd, ghosts, logs>>

\* the failed Set of sendPrompt is reported with consumed = false
SetPromptErrUnconsumed(p) ==
    /\ pc[p] = "setPrompt"
    /\ ev' = [ev EXCEPT ![p] = Append(@, Ev("Set", "", ErrStorage, userState[p]))]
    /\ ret' = [ret EXCEPT ![p] = Ret(FALSE, ErrStorage)]
    /\ pc' = [pc EXCEPT ![p] = "done"]
    /\ UNCHANGED <<others, mgr, storage, update, userState, exists, state, nextState, rd, ghosts, logs>>

\* the Set of sendPrompt that reports a failure has stored the record
SetPromptErrWrites(p) ==
    /\ pc[p] = "setPrompt"
    /\ storage' = StorageSet(storage, keyFunc(update[p]), userState[p])
    /\ ev' = [ev EXCEPT ![p] = Append(@, Ev("Set", "", ErrStorage, userState[p]))]
    /\ ret' = [ret EXCEPT ![p] = Ret(TRUE, ErrStorage)]
    /\ pc' = [pc EXCEPT ![p] = "done"]
    /\ UNCHANGED <<others, mgr, update, userState, exists, state, nextState, rd, ghosts, logs>>

\* state.go:126: the Set of sendPrompt failed
SetPromptErr(p) ==
    /\ pc[p] = "setPrompt"
    /\ ev' = [ev EXCEPT ![p] = Append(@, Ev("Set", "", ErrStorage, userState[p]))]
    /\ ret' = [ret EXCEPT ![p] = Ret(TRUE, ErrStorage)]
    /\ pc' = [pc EXCEPT ![p] = "done"]
    /\ UNCHANGED <<others, mgr, storage, update, userState, exists, state, nextState, rd, ghosts, logs>>

\* state.go:92, 100-102: state.Handle returned a next state and no error
HandleOK(p) ==
    /\ pc[p] = "handle"
    /\ \E r \in HandleResults(state[p], update[p], userState[p].Data) :
         /\ r.err = Nil
         /\ nextState' = [nextState EXCEPT ![p] = r.next]
         /\ userState' = [userState EXCEPT ![p] = Transition(WithData(@, r.data), r.next)]
         /\ ev' = [ev EXCEPT ![p] = Append(@, Ev("Handle", state[p].Name, Nil, WithData(userState[p], r.data)))]
    /\ pc' = [pc EXCEPT ![p] = "setTrans"]
    /\ UNCHANGED <<others, mgr, storage, update, exists, state, ret, rd, ghosts, logs>>

\* the validation branch saves the record the handler worked on
HandleValidationSaves(p) ==
    /\ pc[p] = "handle"
    /\ \E r \in HandleResults(state[p], update[p], userState[p].Data) :
         /\ r.err # Nil
         /\ IsValidation(r.err)
         /\ userState' = [userState EXCEPT ![p] = WithData(@, r.data)]
         /\ storage' = StorageSet(storage, keyFunc(update[p]), WithData(userState[p], r.data))
         /\ ev' = [ev EXCEPT ![p] = Append(@, Ev("Handle", state[p].Name, r.err, WithData(userState[p], r.data)))]
    /\ ret' = [ret EXCEPT ![p] = Ret(TRUE, Nil)]
    /\ pc' = [pc EXCEPT ![p] = "done"]
    /\ UNCHANGED <<others, mgr, update, exists, state, nextState, rd, ghosts, logs>>

\* Handle without the errors.Is test of state.go:94: the "" a rejecting
\* handler returns is taken for the next state
HandleValidationTransitions(p) ==
    /\ pc[p] = "handle"
    /\ \E r \in HandleResults(state[p], update[p], userState[p].Data) :
         /\ r.err # Nil
         /\ IsValidation(r.err)
         /\ nextState' = [nextState EXCEPT ![p] = r.next]
         /\ userState' = [userState EXCEPT ![p] = Transition(WithData(@, r.data), r.next)]
         /\ ev' = [ev EXCEPT ![p] = Append(@, Ev("Handle", state[p].Name, r.err, WithData(userState[p], r.data)))]
    /\ pc' = [pc EXCEPT ![p] = "setTrans"]
    /\ UNCHANGED <<others, mgr, storage, update, exists, state, ret, rd, ghosts, logs>>

\* a validation failure is reported as an event nobody consumed
HandleValidationUnconsumed(p) ==
    /\ pc[p] = "handle"
    /\ \E r \in HandleResults(state[p], update[p], userState[p].Data) :
         /\ r.err # Nil
         /\ IsValidation(r.err)
         /\ userState' = [userState EXCEPT ![p] = WithData(@, r.data)]
         /\ ev' = [ev EXCEPT ![p] = Append(@, Ev("Handle", state[p].Name, r.err, WithData(userState[p], r.data)))]
    /\ ret' = [ret EXCEPT ![p] = Ret(FALSE, Nil)]
    /\ pc' = [pc EXCEPT ![p] = "done"]
    /\ UNCHANGED <<others, mgr, storage, update, exists, state, nextState, rd, ghosts, logs>>

\* state.go:92-96: state.Handle returned a validation error
HandleValidation(p) ==
    /\ pc[p] = "handle"
    /\ \E r \in HandleResults(state[p], update[p], userState[p].Data) :
         /\ r.err # Nil
         /\ IsValidation(r.err)
         /\ userState' = [userState EXCEPT ![p] = WithData(@, r.data)]
         /\ ev' = [ev EXCEPT ![p] = Append(@, Ev("Handle", state[p].Name, r.err, WithData(userState[p], r.data)))]
    /\ ret' = [ret EXCEPT ![p] = Ret(TRUE, Nil)]
    /\ pc' = [pc EXCEPT ![p] = "done"]
    /\ UNCHANGED <<others, mgr, storage, update, exists, state, nextState, rd, ghosts, logs>>

\* the failing handler's payload is committed
HandleErrSaves(p) ==
    /\ pc[p] = "handle"
    /\ \E r \in HandleResults(state[p], update[p], userState[p].Data) :
         /\ r.err # Nil
         /\ ~IsValidation(r.err)
         /\ userState' = [userState EXCEPT ![p] = WithData(@, r.data)]
         /\ storage' = StorageSet(storage, keyFunc(update[p]), WithData(userState[p], r.data))
         /\ ev' = [ev EXCEPT ![p] = Append(@, Ev("Handle", state[p].Name, r.err, WithData(userState[p], r.data)))]
         /\ ret' = [ret EXCEPT ![p] = Ret(FALSE, r.err)]
    /\ pc' = [pc EXCEPT ![p] = "done"]
    /\ UNCHANGED <<others, mgr, update, exists, state, nextState, rd, ghosts, logs>>

\* the result of a failing handler is committed like a transition
HandleErrCommits(p) ==
    /\ pc[p] = "handle"
    /\ \E r \in HandleResults(state[p], update[p], userState[p].Data) :
         /\ r.err # Nil
         /\ ~IsValidation(r.err)
         /\ nextState' = [nextState EXCEPT ![p] = r.next]
         /\ userState' = [userState EXCEPT ![p] = Transition(WithData(@, r.data), r.next)]
         /\ ev' = [ev EXCEPT ![p] = Append(@, Ev("Handle", state[p].Name, r.err, WithData(userState[p], r.data)))]
    /\ pc' = [pc EXCEPT ![p] = "setTrans"]
    /\ UNCHANGED <<others, mgr, storage, update, exists, state, ret, rd, ghosts, logs>>

\* state.go:92-97: state.Handle returned another error
HandleErr(p) ==
    /\ pc[p] = "handle"
    /\ \E r \in HandleResults(state[p], update[p], userState[p].Data) :
         /\ r.err # Nil
         /\ ~IsValidation(r.err)
         /\ userState' = [userState EXCEPT ![p] = WithData(@, r.data)]
         /\ ev' = [ev EXCEPT ![p] = Append(@, Ev("Handle", state[p].Name, r.err, WithData(userState[p], r.data)))]
         /\ ret' = [ret EXCEPT ![p] = Ret(FALSE, r.err)]
    /\ pc' = [pc EXCEPT ![p] = "done"]
    /\ UNCHANGED <<others, mgr, storage, update, exists, state, nextState, rd, ghosts, logs>>

\* the Set of the transition replaces the record only if the key still holds
\* what the call's Get returned (a compare-and-set per key)
SetTransIfUnchanged(p) ==
    LET key == keyFunc(update[p])
        next == nextState[p]
        to == AfterTransition(states, next)
    IN  /\ pc[p] = "setTrans"
        /\ storage' = IF StorageGet(storage, key) = rd[p]
                      THEN StorageSet(storage, key, userState[p]) ELSE storage
        /\ ev' = [ev EXCEPT ![p] = Append(@, Ev("Set", "", Nil, userState[p]))]
        /\ state' = [state EXCEPT ![p] = IF to = "prompt" THEN states[next] ELSE @]
        /\ pc' = [pc EXCEPT ![p] = to]
        /\ ret' = [ret EXCEPT ![p] = Ret(TRUE, Nil)]
        /\ stay' = [stay EXCEPT ![key] =
                EnterState(next \in DOMAIN states /\ next \notin {"", NopState}, next)]
        /\ UNCHANGED <<others, mgr, update, userState, exists, nextState, rd, logs>>

\* state.go:103-117: the Set of the transition succeeded
SetTrans(p) ==
    LET key == keyFunc(update[p])
        next == nextState[p]
        to == AfterTransition(states, next)
    IN  /\ pc[p] = "setTrans"
        /\ storage' = StorageSet(storage, key, userState[p])
        /\ ev' = [ev EXCEPT ![p] = Append(@, Ev("Set", "", Nil, userState[p]))]
        /\ state' = [state EXCEPT ![p] = IF to = "prompt" THEN states[next] ELSE @]
        /\ pc' = [pc EXCEPT ![p] = to]
        /\ ret' = [ret EXCEPT ![p] = Ret(TRUE, Nil)]
        /\ stay' = [stay EXCEPT ![key] =
                EnterState(next \in DOMAIN states /\ next \notin {"", NopState}, next)]
        /\ UNCHANGED <<others, mgr, update, userState, exists, nextState, rd, logs>>

\* the Set that reports a failure has replaced the record nevertheless
SetTransErrWrites(p) ==
    /\ pc[p] = "setTrans"
    /\ storage' = StorageSet(storage, keyFunc(update[p]), userState[p])
    /\ ev' = [ev EXCEPT ![p] = Append(@, Ev("Set", "", ErrStorage, userState[p]))]
    /\ ret' = [ret EXCEPT ![p] = Ret(FALSE, ErrStorage)]
    /\ pc' = [pc EXCEPT ![p] = "done"]
    /\ UNCHANGED <<others, mgr, update, userState, exists, state, nextState, rd, ghosts, logs>>

\* state.go:103-105: the Set of the transition failed
SetTransErr(p) ==
    /\ pc[p] = "setTrans"
    /\ ev' = [ev EXCEPT ![p] = Append(@, Ev("Set", "", ErrStorage, userState[p]))]
    /\ ret' = [ret EXCEPT ![p] = Ret(FALSE, ErrStorage)]
    /\ pc' = [pc EXCEPT ![p] = "done"]
    /\ UNCHANGED <<others, mgr, storage, update, userState, exists, state, nextState, rd, ghosts, logs>>

\* Handle has returned; the goroutine is free for the next event
ReturnCore(p) ==
    /\ pc[p] = "done"
    /\ pc' = [pc EXCEPT ![p] = "idle"]
    /\ update' = [update EXCEPT ![p] = NoUpdate]
    /\ userState' = [userState EXCEPT ![p] = ZeroUserState]
    /\ exists' = [exists EXCEPT ![p] = FALSE]
    /\ state' = [state EXCEPT ![p] = NoState]
    /\ nextState' = [nextState EXCEPT ![p] = ""]
    /\ ret' = [ret EXCEPT ![p] = NoRet]
    /\ rd' = [rd EXCEPT ![p] = NoRead]
    /\ ev' = [ev EXCEPT ![p] = <<>>]
    /\ UNCHANGED <<others, mgr, storage, ghosts>>

Return(p) ==
    /\ ReturnCore(p)
    /\ UNCHANGED logs

\* ------------------------------------------------------------------------
\* Specifications
\* ------------------------------------------------------------------------

\* no goroutine is in the middle of a Handle call for key k
Quiet(k) ==
    \A p \in Procs : pc[p] \in {"idle", "done"} \/ keyFunc(update[p]) # k

\* what storage.Get returns for the key of goroutine p's call
Stored(p) == StorageGet(storage, keyFunc(update[p]))

\* events outside the scenario: the callbacks do not look at the text
Updates == {MockUpdate(k, TxtEmpty) : k \in Keys}

\* Handle calls of any number of goroutines, interleaved at every storage
\* operation and callback; callbacks and the backend may fail
Next ==
    \/ \E b \in Batches : SetupAdd(b)
    \/ \E n \in InitialNames : SetupSetInitialState(n)
    \/ \E p \in Procs, u \in Updates : Begin(p, u)
    \/ \E p \in Procs, u \in Updates : GetErr(p, u)
    \/ \E p \in Procs : Prompt(p)
    \/ \E p \in Procs : PromptErr(p)
    \/ \E p \in Procs : SetPrompt(p)
    \/ \E p \in Procs : SetPromptErr(p)
    \/ \E p \in Procs : HandleOK(p)
    \/ \E p \in Procs : HandleValidation(p)
    \/ \E p \in Procs : HandleErr(p)
    \/ \E p \in Procs : SetTrans(p)
    \/ \E p \in Procs : SetTransErr(p)
    \/ \E p \in Procs : Return(p)

\* Handle calls of any number of goroutines, interleaved; between two calls,
\* while no goroutine is inside Handle, the table may grow and the initial
\* state may be set again
NextOpen ==
    \/ \E b \in Batches : Add(b)
    \/ \E n \in InitialNames : SetInitialState(n)
    \/ \E p \in Procs, u \in Updates : Begin(p, u)
    \/ \E p \in Procs, u \in Updates : GetErr(p, u)
    \/ \E p \in Procs : Prompt(p)
    \/ \E p \in Procs : PromptErr(p)
    \/ \E p \in Procs : SetPrompt(p)
    \/ \E p \in Procs : SetPromptErr(p)
    \/ \E p \in Procs : HandleOK(p)
    \/ \E p \in Procs : HandleValidation(p)
    \/ \E p \in Procs : HandleErr(p)
    \/ \E p \in Procs : SetTrans(p)
    \/ \E p \in Procs : SetTransErr(p)
    \/ \E p \in Procs : Return(p)

SpecOpen == Init /\ [][NextOpen]_vars

Spec == Init /\ [][Next]_vars

\* Handle calls one after another, made by one goroutine; no callback and
\* no storage operation fails (validation failures are not failures)
Caller == CHOOSE p \in Procs : \A q \in Procs : p <= q

SeqBegin(u) ==
    /\ AllIdle
    /\ BeginCore(Caller, u)
    /\ UNCHANGED logs

NextSeq ==
    \/ \E b \in Batches : Add(b)
    \/ \E n \in InitialNames : SetInitialState(n)
    \/ \E u \in Updates : SeqBegin(u)
    \/ \E p \in Procs : Prompt(p)
    \/ \E p \in Procs : SetPrompt(p)
    \/ \E p \in Procs : HandleOK(p)
    \/ \E p \in Procs : HandleValidation(p)
    \/ \E p \in Procs : SetTrans(p)
    \/ \E p \in Procs : Return(p)

SpecSeq == Init /\ [][NextSeq]_vars

\* history: the callbacks and Sets of a call without the records
Outline(log) ==
    [i \in 1..Len(log) |-> [op |-> log[i].op, name |-> log[i].name, err |-> log[i].err]]

\* state.go:68-71: storage.Get failed, in a call made after the previous one
SeqGetErr(u) ==
    /\ AllIdle
    /\ update' = [update EXCEPT ![Caller] = u]
    /\ pc' = [pc EXCEPT ![Caller] = "done"]
    /\ ret' = [ret EXCEPT ![Caller] = Ret(FALSE, ErrStorage)]
    /\ UNCHANGED <<others, mgr, storage, userState, exists, state, nextState, rd, ev, ghosts, logs>>

\* Handle has returned to the caller, who sees what it returned
SeqReturn ==
    /\ ReturnCore(Caller)
    /\ prev' = [prev EXCEPT ![keyFunc(update[Caller])] =
                   [ev |-> Outline(ev[Caller]), ret |-> ret[Caller]]]
    /\ UNCHANGED <<others, hist, calls>>

\* Handle calls one after another, made by one goroutine; callbacks and
\* storage operations may fail
NextSeqFail ==
    \/ \E b \in Batches : Add(b)
    \/ \E n \in InitialNames : SetInitialState(n)
    \/ \E u \in Updates : SeqBegin(u)
    \/ \E u \in Updates : SeqGetErr(u)
    \/ Prompt(Caller)
    \/ PromptErr(Caller)
    \/ SetPrompt(Caller)
    \/ SetPromptErr(Caller)
    \/ HandleOK(Caller)
    \/ HandleValidation(Caller)
    \/ HandleErr(Caller)
    \/ SetTrans(Caller)
    \/ SetTransErr(Caller)
    \/ SeqReturn

SpecSeqFail == Init /\ [][NextSeqFail]_vars

\* ------------------------------------------------------------------------
\* The conversation of state_test.go: setupStateManager, then one goroutine
\* feeds events of one chat, one Handle call after another, and reads the
\* stored record after each call (runE2ETest, runFuzzTest)
\* ------------------------------------------------------------------------

ScenarioTexts ==
    {TxtEmpty, TxtJohnDoe, TxtNotANumber, Txt30, TxtMinus1, TxtUnitedStates, TxtExtra}

\* the chat of the test
ChatID == CHOOSE k \in Keys : \A j \in Keys : k <= j

\* setupStateManager (state_test.go:31-43)
InitScenario ==
    /\ states = AddLoop(EmptyTable, <<NameState, AgeState, CountryState>>, 1).states
    /\ initialState = "ask_name"
    /\ storage = EmptyStorage
    /\ pc = [p \in Procs |-> "idle"]
    /\ update = [p \in Procs |-> NoUpdate]
    /\ userState = [p \in Procs |-> ZeroUserState]
    /\ exists = [p \in Procs |-> FALSE]
    /\ state = [p \in Procs |-> NoState]
    /\ nextState = [p \in Procs |-> ""]
    /\ ret = [p \in Procs |-> NoRet]
    /\ rd = [p \in Procs |-> NoRead]
    /\ ev = [p \in Procs |-> <<>>]
    /\ stay = [k \in Keys |-> NoStay]
    /\ hist = <<>>
    /\ calls = 0
    /\ prev = [k \in Keys |-> NoPrev]
    /\ OthersInit

\* sm.Handle(MockUpdate{ChatID: chatID, Text: tc.input})
ScenBegin(text) ==
    /\ AllIdle
    /\ Len(hist) < MaxEvents
    /\ BeginCore(Caller, MockUpdate(ChatID, text))
    /\ UNCHANGED logs

\* assertTestCase: handled, err, and storage.Get(chatID) after the call
ScenReturn ==
    /\ ReturnCore(Caller)
    /\ hist' = Append(hist, [text |-> update[Caller].Text,
                             handled |-> ret[Caller].consumed,
                             err |-> ret[Caller].err,
                             got |-> Stored(Caller)])
    /\ UNCHANGED <<others, calls, prev>>

NextScenario ==
    \/ \E t \in ScenarioTexts : ScenBegin(t)
    \/ Prompt(Caller)
    \/ SetPrompt(Caller)
    \/ HandleOK(Caller)
    \/ HandleValidation(Caller)
    \/ SetTrans(Caller)
    \/ ScenReturn

SpecScenario == InitScenario /\ [][NextScenario]_vars

\* the registration of states: any sequence of Add calls
NextAdd == \E b \in Batches : AddCall(b)

SpecAdd == Init /\ [][NextAdd]_vars

\* setup calls in any order (setupStateManager of state_test.go sets the
\* initial state first, registerStates of the example bot registers first),
\* and Handle calls one after another; nothing fails
NextSetup ==
    \/ \E b \in Batches : Add(b)
    \/ \E n \in InitialNames : SetInitialCall(n)
    \/ \E u \in Updates : SeqBegin(u)
    \/ Prompt(Caller)
    \/ SetPrompt(Caller)
    \/ HandleOK(Caller)
    \/ HandleValidation(Caller)
    \/ SetTrans(Caller)
    \/ Return(Caller)

SpecSetup == Init /\ [][NextSetup]_vars

\* ------------------------------------------------------------------------
\* The storage backends used directly, as the storage tests do
\* (TestStorageImplementations, FuzzStorageOperations): goroutines call Set
\* and Get on the key 0 that they share and on a key of their own.
\* ------------------------------------------------------------------------

\* createStorageFactories
Backends == {"InMemory", "Redis"}

\* a record with characters that JSON escapes, a record with a string that
\* is not valid UTF-8 (the fuzzer's name argument is any byte string), and
\* the empty record of testEdgeCases
RecPlain ==
    [CurrentState |-> NopState,
     Data |-> [Name |-> TxtJohnDoe, Age |-> 30, Country |-> <<"&">>],
     PromptSent |-> TRUE]
RecBytes ==
    [CurrentState |-> "a",
     Data |-> [Name |-> <<BadByte>>, Age |-> 0 - 1, Country |-> <<>>],
     PromptSent |-> FALSE]
StoreRecords == {RecPlain, RecBytes, ZeroUserState}

StoreKeys == {0} \cup Procs
OwnKeys(p) == {0, p}

\* what a read of the map can give while another goroutine writes it: Go
\* leaves the outcome of the data race open
RacyReads ==
    {GetResult([CurrentState |-> a.CurrentState, Data |-> b.Data, PromptSent |-> c.PromptSent], e, Nil) :
        a \in StoreRecords, b \in StoreRecords, c \in StoreRecords, e \in BOOLEAN}

\* goroutine p is neither in a storage operation nor in Handle
Free(p) == storeOp[p].pc = "idle" /\ pc[p] = "idle"

engine == <<mgr, locals, ghosts, logs, added, initSet>>

\* a storage operation of goroutine p begins
StartOp(p, at, kind, k, r) ==
    [storeOp[p] EXCEPT !.pc = at, !.kind = kind, !.key = k, !.rec = r,
                       !.reply = "", !.res = GetResult(ZeroUserState, FALSE, Nil)]

\* Get that does not wait for the writer
GetRLockIgnoresWriter(p, k) ==
    /\ backend = "InMemory"
    /\ Free(p)
    /\ mu' = [mu EXCEPT !.readers = @ \cup {p}]
    /\ storeOp' = [storeOp EXCEPT ![p] = StartOp(p, "rlocked", "Get", k, ZeroUserState)]
    /\ UNCHANGED <<engine, storage, backend, busy, remote, everSet>>

\* inmemory.go:28: Set is called and s.mu.Lock() returns
SetLock(p, k, r) ==
    /\ backend = "InMemory"
    /\ Free(p)
    /\ mu = Unlocked
    /\ mu' = [mu EXCEPT !.writer = p]
    /\ storeOp' = [storeOp EXCEPT ![p] = StartOp(p, "locked", "Set", k, r)]
    /\ everSet' = everSet \cup {k}
    /\ UNCHANGED <<engine, storage, backend, busy, remote>>

\* inmemory.go:30: the assignment to the map begins
SetWrite(p) ==
    /\ storeOp[p].pc = "locked"
    /\ busy' = TRUE
    /\ storeOp' = [storeOp EXCEPT ![p].pc = "writing"]
    /\ UNCHANGED <<engine, storage, backend, mu, remote, everSet>>

\* inmemory.go:30: the assignment to the map is done
SetStore(p) ==
    /\ storeOp[p].pc = "writing"
    /\ storage' = StorageSet(storage, storeOp[p].key, storeOp[p].rec)
    /\ busy' = FALSE
    /\ storeOp' = [storeOp EXCEPT ![p].pc = "stored"]
    /\ UNCHANGED <<engine, backend, mu, remote, everSet>>

\* inmemory.go:29, 31: the deferred s.mu.Unlock(), and Set returns nil
SetUnlock(p) ==
    /\ storeOp[p].pc = "stored"
    /\ mu' = [mu EXCEPT !.writer = 0]
    /\ storeOp' = [storeOp EXCEPT ![p].pc = "idle",
                       ![p].mine = IF storeOp[p].key = p
                                   THEN [userState |-> storeOp[p].rec, exists |-> TRUE]
                                   ELSE @]
    /\ UNCHANGED <<engine, storage, backend, busy, remote, everSet>>

\* inmemory.go:20: Get is called and s.mu.RLock() returns
GetRLock(p, k) ==
    /\ backend = "InMemory"
    /\ Free(p)
    /\ mu.writer = 0
    /\ mu' = [mu EXCEPT !.readers = @ \cup {p}]
    /\ storeOp' = [storeOp EXCEPT ![p] = StartOp(p, "rlocked", "Get", k, ZeroUserState)]
    /\ UNCHANGED <<engine, storage, backend, busy, remote, everSet>>

\* inmemory.go:22: state, ok := s.states[id]
GetRead(p) ==
    /\ storeOp[p].pc = "rlocked"
    /\ \E res \in IF busy THEN RacyReads
                  ELSE {GetResult(StorageGet(storage, storeOp[p].key).userState,
                                  StorageGet(storage, storeOp[p].key).exists, Nil)} :
          storeOp' = [storeOp EXCEPT ![p].pc = "read", ![p].res = res]
    /\ UNCHANGED <<engine, storage, backend, mu, busy, remote, everSet>>

\* inmemory.go:21, 23: the deferred s.mu.RUnlock(), and Get returns
GetRUnlock(p) ==
    /\ storeOp[p].pc = "read"
    /\ mu' = [mu EXCEPT !.readers = @ \ {p}]
    /\ storeOp' = [storeOp EXCEPT ![p].pc = "idle"]
    /\ UNCHANGED <<engine, storage, backend, busy, remote, everSet>>

\* redis.go:55-62: RedisStorage.Set; the SET reaches the server, or the
\* client reports a failure and the server keeps what it had
SetRedis(p, k, r) ==
    /\ backend = "Redis"
    /\ Free(p)
    /\ everSet' = everSet \cup {k}
    /\ \E err \in {Nil, ErrStorage} :
          /\ remote' = IF err = Nil THEN ServerSet(remote, k, Marshal(r)) ELSE remote
          /\ storeOp' = [storeOp EXCEPT ![p] =
                [StartOp(p, "idle", "Set", k, r) EXCEPT
                    !.res = GetResult(ZeroUserState, FALSE, err),
                    !.mine = IF k = p /\ err = Nil
                             THEN [userState |-> r, exists |-> TRUE] ELSE @]]
    /\ UNCHANGED <<engine, storage, backend, mu, busy>>

\* redis.go:32-53: RedisStorage.Get; the server replies or the GET fails
GetRedis(p, k) ==
    /\ backend = "Redis"
    /\ Free(p)
    /\ \E reply \in {ServerGet(remote, k), ReplyErr} :
          storeOp' = [storeOp EXCEPT ![p] =
                [StartOp(p, "idle", "Get", k, ZeroUserState) EXCEPT
                    !.reply = reply.kind, !.res = RedisGet(reply)]]
    /\ UNCHANGED <<engine, storage, backend, mu, busy, remote, everSet>>

\* another program that uses the same server and prefix writes the shared key
ForeignSet ==
    /\ backend = "Redis"
    /\ ServerGet(remote, 0) # ReplyBytes(ForeignDoc)
    /\ remote' = ServerSet(remote, 0, ForeignDoc)
    /\ everSet' = everSet \cup {0}
    /\ UNCHANGED <<engine, storage, backend, mu, busy, storeOp>>

\* state.go:67-71 on RedisStorage: Handle's storage.Get returns an error
HandleGetErr(p, k) ==
    /\ backend = "Redis"
    /\ Free(p)
    /\ \E reply \in {ServerGet(remote, k), ReplyErr} :
          /\ RedisGet(reply).err # Nil
          /\ storeOp' = [storeOp EXCEPT ![p] =
                [StartOp(p, "idle", "Get", k, ZeroUserState) EXCEPT
                    !.reply = reply.kind, !.res = RedisGet(reply)]]
          /\ ret' = [ret EXCEPT ![p] = Ret(FALSE, RedisGet(reply).err)]
    /\ update' = [update EXCEPT ![p] = MockUpdate(k, TxtEmpty)]
    /\ pc' = [pc EXCEPT ![p] = "done"]
    /\ UNCHANGED <<mgr, storage, userState, exists, state, nextState, rd, ev,
                   ghosts, logs, added, initSet, backend, mu, busy, remote, everSet>>

\* a manager on storage from one of the factories; nothing is stored
InitStorage ==
    /\ EngineInit
    /\ added = NoAdd
    /\ initSet = NoInitSet
    /\ backend \in Backends
    /\ mu = Unlocked
    /\ busy = FALSE
    /\ remote = [k \in {} |-> <<>>]
    /\ storeOp = [p \in Procs |-> NoOp]
    /\ everSet = {}

NextStorage ==
    \/ \E p \in Procs : \E k \in OwnKeys(p), r \in StoreRecords : SetLock(p, k, r)
    \/ \E p \in Procs : SetWrite(p)
    \/ \E p \in Procs : SetStore(p)
    \/ \E p \in Procs : SetUnlock(p)
    \/ \E p \in Procs : \E k \in OwnKeys(p) : GetRLock(p, k)
    \/ \E p \in Procs : GetRead(p)
    \/ \E p \in Procs : GetRUnlock(p)
    \/ \E p \in Procs : \E k \in OwnKeys(p), r \in StoreRecords : SetRedis(p, k, r)
    \/ \E p \in Procs : \E k \in OwnKeys(p) : GetRedis(p, k)
    \/ ForeignSet
    \/ \E p \in Procs : \E k \in OwnKeys(p) : HandleGetErr(p, k)
    \/ \E p \in Procs : Return(p)

SpecStorage == InitStorage /\ [][NextStorage]_vars

\* ------------------------------------------------------------------------
\* Handle calls for different keys at the same time: a goroutine begins a
\* call only for a key no other goroutine is in a call for
\* ------------------------------------------------------------------------

IsoKeys == 1..(NumKeys + 1)

\* a state with a prompt and a state without; "a" is the initial state
IsoTable == AddLoop(EmptyTable, <<State("a", "any", "any"), State("b", "nil", "any")>>, 1).states

InitIso ==
    /\ states = IsoTable
    /\ initialState = "a"
    /\ storage = EmptyStorage
    /\ pc = [p \in Procs |-> "idle"]
    /\ update = [p \in Procs |-> NoUpdate]
    /\ userState = [p \in Procs |-> ZeroUserState]
    /\ exists = [p \in Procs |-> FALSE]
    /\ state = [p \in Procs |-> NoState]
    /\ nextState = [p \in Procs |-> ""]
    /\ ret = [p \in Procs |-> NoRet]
    /\ rd = [p \in Procs |-> NoRead]
    /\ ev = [p \in Procs |-> <<>>]
    /\ stay = [k \in IsoKeys |-> NoStay]
    /\ hist = <<>>
    /\ calls = 0
    /\ prev = [k \in IsoKeys |-> NoPrev]
    /\ OthersInit

\* no goroutine is in a Handle call for key k
KeyFree(k) == \A q \in Procs : pc[q] = "idle" \/ keyFunc(update[q]) # k

IsoBegin(p, k) == KeyFree(k) /\ Begin(p, MockUpdate(k, TxtEmpty))

IsoGetErr(p, k) == KeyFree(k) /\ GetErr(p, MockUpdate(k, TxtEmpty))

NextIso ==
    \/ \E p \in Procs, k \in IsoKeys : IsoBegin(p, k)
    \/ \E p \in Procs, k \in IsoKeys : IsoGetErr(p, k)
    \/ \E p \in Procs : Prompt(p)
    \/ \E p \in Procs : PromptErr(p)
    \/ \E p \in Procs : SetPrompt(p)
    \/ \E p \in Procs : SetPromptErr(p)
    \/ \E p \in Procs : HandleOK(p)
    \/ \E p \in Procs : HandleValidation(p)
    \/ \E p \in Procs : HandleErr(p)
    \/ \E p \in Procs : SetTrans(p)
    \/ \E p \in Procs : SetTransErr(p)
    \/ \E p \in Procs : Return(p)

SpecIso == InitIso /\ [][NextIso]_vars

TypeOK ==
    /\ \A n \in DOMAIN states : states[n].Name = n
    /\ \A p \in Procs : pc[p] \in {"idle", "prompt", "setPrompt", "handle", "setTrans", "done"}


\* ------------------------------------------------------------------------
\* Properties
\* ------------------------------------------------------------------------

\* the callbacks and Sets of goroutine p's call, by kind
HandleEvents(p) == {i \in 1..Len(ev[p]) : ev[p][i].op = "Handle"}
PromptEvents(p) == {i \in 1..Len(ev[p]) : ev[p][i].op = "Prompt"}
SetEvents(p) == {i \in 1..Len(ev[p]) : ev[p][i].op = "Set"}

HasPrompt(name) == name \in DOMAIN states /\ states[name].Prompt # "nil"

\* goroutine p is about to Set the record it marked promptSent = true, and
\* the last thing its call did was a successful prompt of that record's state
SetsAfterPrompt(p) ==
    /\ pc[p] = "setPrompt"
    /\ ev[p] # <<>>
    /\ ev[p][Len(ev[p])].op = "Prompt"
    /\ ev[p][Len(ev[p])].err = Nil
    /\ ev[p][Len(ev[p])].name = userState[p].CurrentState

PromptOncePerEntry ==
    \A k \in Keys :
       (stay[k].entered /\ HasPrompt(stay[k].name)) =>
          /\ stay[k].prompts <= 1
          /\ Quiet(k) => stay[k].prompts = 1

\* a validation failure has just been answered in a stay that began with
\* a handler's transition and whose prompt was invoked once
PromptOncePerEntryWitness ==
    \E p \in Procs :
       LET k == keyFunc(update[p])
       IN  /\ pc[p] = "done"
           /\ \E i \in HandleEvents(p) : IsValidation(ev[p][i].err)
           /\ stay[k].entered /\ HasPrompt(stay[k].name)
           /\ stay[k].name # initialState
           /\ stay[k].prompts = 1

\* the first call for a key: Get found no record and the initial state is
\* registered with a prompt
FirstSeen(p) ==
    /\ pc[p] = "done"
    /\ ~rd[p].exists
    /\ HasPrompt(initialState)

\* C3: for a key with no record, when the initial state is registered and
\* declares a prompt, the first Handle call invokes that prompt and no
\* handler, stores (initial state, promptSent = true) and returns (true, nil).
FirstSeenKey ==
    \A p \in Procs :
       FirstSeen(p) =>
          /\ Len(ev[p]) = 2
          /\ ev[p][1].op = "Prompt" /\ ev[p][1].name = initialState /\ ev[p][1].err = Nil
          /\ ev[p][2].op = "Set" /\ ev[p][2].err = Nil
          /\ HandleEvents(p) = {}
          /\ Stored(p).exists
          /\ Stored(p).userState.CurrentState = initialState
          /\ Stored(p).userState.PromptSent
          /\ Stored(p).userState = ev[p][2].rec
          /\ ret[p] = Ret(TRUE, Nil)

FirstSeenKeyWitness ==
    \E p \in Procs : FirstSeen(p) /\ Stored(p).exists

\* goroutine p's call ended with a validation failure of the handler
ValidationFailed(p) ==
    /\ pc[p] = "done"
    /\ \E i \in HandleEvents(p) : ev[p][i].err # Nil /\ IsValidation(ev[p][i].err)

\* C4: when the handler returns ErrValidation or an error wrapping it, Handle
\* returns (true, nil), writes nothing, and the stored record of the key
\* (or its absence) is what the call's Get returned, even if the handler
\* changed the payload it was given.
ValidationKeepsState ==
    \A p \in Procs :
       ValidationFailed(p) =>
          /\ ret[p] = Ret(TRUE, Nil)
          /\ SetEvents(p) = {}
          /\ Stored(p) = rd[p]

\* a wrapped validation error, returned by a handler that changed the
\* payload of an existing record
ValidationKeepsStateWitness ==
    \E p \in Procs :
       /\ ValidationFailed(p)
       /\ rd[p].exists
       /\ userState[p].Data # rd[p].userState.Data
       /\ \E i \in HandleEvents(p) : ev[p][i].err # ErrValidation


\* goroutine p's call has returned and its handler returned a next state
\* and no error
TransitionDone(p) ==
    /\ pc[p] = "done"
    /\ Len(ev[p]) >= 1
    /\ ev[p][1].op = "Handle" /\ ev[p][1].err = Nil

\* the record the transition persists: next state X, promptSent = false,
\* the payload as the handler left it
TransitionPersisted(p, X) ==
    /\ Len(ev[p]) >= 2
    /\ ev[p][2].op = "Set" /\ ev[p][2].err = Nil
    /\ ev[p][2].rec = [CurrentState |-> X, Data |-> ev[p][1].rec.Data,
                       PromptSent |-> FALSE]

\* X's prompt is invoked in the same call, and (X, promptSent = true) with
\* the payload as the prompt left it is persisted
PromptedInSameCall(p, X) ==
    /\ Len(ev[p]) = 4
    /\ ev[p][3].op = "Prompt" /\ ev[p][3].name = X /\ ev[p][3].err = Nil
    /\ ev[p][3].rec.Data \in Payloads
    /\ ev[p][4].op = "Set" /\ ev[p][4].err = Nil
    /\ ev[p][4].rec = [CurrentState |-> X, Data |-> ev[p][3].rec.Data,
                       PromptSent |-> TRUE]
    /\ Stored(p) = [userState |-> ev[p][4].rec, exists |-> TRUE]

\* nothing follows the transition; the stored promptSent is false
NotPrompted(p) ==
    /\ Len(ev[p]) = 2
    /\ Stored(p) = [userState |-> ev[p][2].rec, exists |-> TRUE]

\* C5 as stated: when a handler returns next state X without error, (X,
\* promptSent = false, handler's payload) is persisted; if X is registered
\* and declares a prompt, the prompt is invoked in the same call and (X,
\* promptSent = true) is persisted; otherwise promptSent stays false; the
\* call returns (true, nil).
SuccessfulTransitionAsStated ==
    \A p \in Procs :
       TransitionDone(p) =>
          /\ TransitionPersisted(p, nextState[p])
          /\ ret[p] = Ret(TRUE, Nil)
          /\ IF HasPrompt(nextState[p])
             THEN PromptedInSameCall(p, nextState[p])
             ELSE NotPrompted(p)

\* C5, amended: as stated for every X other than NopState; when X is
\* NopState no prompt is invoked, also when a state of that name is
\* registered with a prompt.
SuccessfulTransition ==
    \A p \in Procs :
       TransitionDone(p) =>
          /\ TransitionPersisted(p, nextState[p])
          /\ ret[p] = Ret(TRUE, Nil)
          /\ IF HasPrompt(nextState[p]) /\ nextState[p] # NopState
             THEN PromptedInSameCall(p, nextState[p])
             ELSE NotPrompted(p)

\* a transition into a state with a prompt, where handler and prompt both
\* changed the payload
SuccessfulTransitionWitness ==
    \E p \in Procs :
       /\ TransitionDone(p)
       /\ HasPrompt(nextState[p]) /\ nextState[p] # NopState
       /\ ev[p][1].rec.Data # rd[p].userState.Data
       /\ Len(ev[p]) = 4 /\ ev[p][3].rec.Data # ev[p][1].rec.Data

\* C6: when a handler returns NopState without error, the stored
\* currentState after the call is the state name the key had before the
\* call, and the call invokes no prompt.
NopStateStays ==
    \A p \in Procs :
       (TransitionDone(p) /\ nextState[p] = NopState /\ rd[p].exists) =>
          /\ Stored(p).userState.CurrentState = rd[p].userState.CurrentState
          /\ PromptEvents(p) = {}

\* C7: after a handler returns "" without error the stored currentState is
\* "", and every later call for the key returns (false, nil), invokes no
\* callback and writes nothing, whatever Add has registered: no table has a
\* state named "" and the record is not seeded again; the record stays as
\* it is.
EndOfFlowIsFinal ==
    /\ [](/\ "" \notin DOMAIN states
          /\ \A p \in Procs :
               /\ (TransitionDone(p) /\ nextState[p] = "") =>
                     /\ Stored(p).exists
                     /\ Stored(p).userState.CurrentState = ""
               /\ (pc[p] = "done" /\ rd[p].exists
                     /\ rd[p].userState.CurrentState = "") =>
                     /\ ret[p] = Ret(FALSE, Nil)
                     /\ ev[p] = <<>>
                     /\ Stored(p) = rd[p])
    /\ [][\A k \in DOMAIN storage :
            storage[k].CurrentState = "" =>
               k \in DOMAIN storage' /\ storage'[k] = storage[k]]_vars

\* a call made after the end of the flow, with a non-empty table and a
\* registered initial state, has returned
EndOfFlowIsFinalWitness ==
    \E p \in Procs :
       /\ pc[p] = "done"
       /\ rd[p].exists /\ rd[p].userState.CurrentState = ""
       /\ initialState \in DOMAIN states

\* a call that found the record a returned NopState left behind
AfterNopState(p) ==
    /\ pc[p] = "done"
    /\ rd[p].exists
    /\ rd[p].userState.CurrentState = NopState

LookedUp(p) == Seed(rd[p].userState, rd[p].exists, initialState).CurrentState

\* C10: if the loaded record (or the initial state, for a key without a
\* record) names a state that is not in the table, Handle returns (false,
\* nil), invokes no callback and writes nothing; so a record naming an
\* unregistered state is not changed by Handle while the name stays
\* unregistered.
UnregisteredStalls ==
    /\ [](\A p \in Procs :
            (pc[p] = "done" /\ LookedUp(p) \notin DOMAIN states) =>
               /\ ret[p] = Ret(FALSE, Nil)
               /\ ev[p] = <<>>
               /\ Stored(p) = rd[p])
    /\ [][\A k \in DOMAIN storage :
            (storage[k].CurrentState \notin DOMAIN states /\ states' = states) =>
               k \in DOMAIN storage' /\ storage'[k] = storage[k]]_vars

\* a call has found a record that a handler's edge to an unregistered,
\* non-empty name left behind
UnregisteredStallsWitness ==
    \E p \in Procs :
       /\ pc[p] = "done"
       /\ rd[p].exists
       /\ rd[p].userState.CurrentState \notin DOMAIN states \cup {"", NopState}
       /\ initialState \in DOMAIN states


\* the events of runE2ETest and what the test expects after each
ScenarioInputs ==
    <<TxtEmpty, TxtJohnDoe, TxtNotANumber, Txt30, TxtUnitedStates, TxtExtra>>
ScenarioHandled == <<TRUE, TRUE, TRUE, TRUE, TRUE, FALSE>>
ScenarioStates ==
    <<"ask_name", "ask_age", "ask_age", "ask_country", "", "">>

\* the first n events fed were the first n events of the scenario
FollowsScenario(n) ==
    /\ n <= Len(hist)
    /\ \A i \in 1..n : hist[i].text = ScenarioInputs[i]

\* C9: with ask_name -> ask_age -> ask_country -> "", initial state ask_name
\* and a fresh key, the events [empty, valid name, invalid age, valid age,
\* valid country, extra] give consumed = [true, true, true, true, true,
\* false], no error, stored currentState = [ask_name, ask_age, ask_age,
\* ask_country, "", ""] after each step, and a final payload holding the
\* name, the age and the country of the valid inputs.
ConversationScenario ==
    /\ \A n \in 1..Len(ScenarioInputs) :
         FollowsScenario(n) =>
            /\ hist[n].handled = ScenarioHandled[n]
            /\ hist[n].err = Nil
            /\ hist[n].got.exists
            /\ hist[n].got.userState.CurrentState = ScenarioStates[n]
    /\ FollowsScenario(Len(ScenarioInputs)) =>
         hist[Len(ScenarioInputs)].got.userState.Data =
            [Name |-> TxtJohnDoe, Age |-> 30, Country |-> TxtUnitedStates]

\* the whole scenario has been played
ConversationScenarioWitness == FollowsScenario(Len(ScenarioInputs))


\* goroutine p's call has returned, and its handler returned without error
\* a non-empty name that is not registered
UnknownNext(p) ==
    /\ TransitionDone(p)
    /\ nextState[p] # ""
    /\ nextState[p] \notin DOMAIN states

\* C11 as stated: when a handler returns, without error, a non-empty next
\* state that is not registered, Handle reports no error and the stored
\* record of the key is what it was before the call.
UnknownNextKeepsStorage ==
    \A p \in Procs :
       UnknownNext(p) =>
          /\ ret[p].err = Nil
          /\ Stored(p) = rd[p]

\* C11, amended: ... Handle returns (true, nil), invokes no prompt, and the
\* stored record of the key is (that name, promptSent = false, the payload
\* as the handler left it).
UnknownNextIsStored ==
    \A p \in Procs :
       UnknownNext(p) =>
          /\ ret[p] = Ret(TRUE, Nil)
          /\ PromptEvents(p) = {}
          /\ TransitionPersisted(p, nextState[p])
          /\ NotPrompted(p)

\* a handler named an unregistered state other than NopState, for a key
\* that had a record with another payload
UnknownNextIsStoredWitness ==
    \E p \in Procs :
       /\ UnknownNext(p)
       /\ nextState[p] # NopState
       /\ rd[p].exists
       /\ Stored(p).userState.Data # rd[p].userState.Data


\* goroutine p's call has returned after its handler returned an error that
\* is not a validation failure
HandlerFailed(p) ==
    /\ pc[p] = "done"
    /\ \E i \in HandleEvents(p) : ev[p][i].err # Nil /\ ~IsValidation(ev[p][i].err)

\* C12: with Handle calls one after another, when a handler returns an error
\* that is not a validation failure, the handler is the only callback of the
\* call, Handle returns (false, that error), issues no Set, and the stored
\* record of the key (or its absence) is what the call's Get returned, even
\* if the handler changed the payload it was given.
HandlerFailureAborts ==
    \A p \in Procs :
       HandlerFailed(p) =>
          /\ Len(ev[p]) = 1
          /\ ret[p] = Ret(FALSE, ev[p][1].err)
          /\ SetEvents(p) = {}
          /\ PromptEvents(p) = {}
          /\ Stored(p) = rd[p]

\* the handler of an existing record changed the payload and then failed
HandlerFailureAbortsWitness ==
    \E p \in Procs :
       /\ HandlerFailed(p)
       /\ rd[p].exists
       /\ userState[p].Data # rd[p].userState.Data


\* goroutine p's call has returned after the prompt of the current state,
\* due on entry, returned an error
PromptFailedOnEntry(p) ==
    /\ pc[p] = "done"
    /\ Len(ev[p]) >= 1
    /\ ev[p][1].op = "Prompt" /\ ev[p][1].err # Nil

\* the last finished call for key k ended with the failure of the prompt
\* of state S, due on entry
PrevPromptFailedOnEntry(k, S) ==
    /\ Len(prev[k].ev) = 1
    /\ prev[k].ev[1].op = "Prompt" /\ prev[k].ev[1].name = S
    /\ prev[k].ev[1].err # Nil

\* goroutine p's call ended at a failed storage.Get
GetFailed(p) == pc[p] = "done" /\ ev[p] = <<>> /\ ret[p].err # Nil

\* the first callback of goroutine p's call is, or is about to be, the
\* prompt of state S
PromptsFirst(p, S) ==
    \/ pc[p] = "prompt" /\ ev[p] = <<>> /\ state[p].Name = S
    \/ Len(ev[p]) >= 1 /\ ev[p][1].op = "Prompt" /\ ev[p][1].name = S

\* C13: with Handle calls one after another, when the prompt of the current
\* state is due and returns an error, Handle returns that error, invokes no
\* handler, issues no Set and does not store promptSent = true: the stored
\* record of the key (or its absence) is what the call's Get returned; and
\* the next call for the key whose Get succeeds invokes that prompt first
\* (for a key without a record: while the initial state is not set again).
PromptFailureOnEntry ==
    /\ \A p \in Procs :
         PromptFailedOnEntry(p) =>
            /\ Len(ev[p]) = 1
            /\ ret[p].err = ev[p][1].err
            /\ HandleEvents(p) = {}
            /\ SetEvents(p) = {}
            /\ Stored(p) = rd[p]
            /\ ~Stored(p).userState.PromptSent
    /\ \A p \in Procs : \A S \in DOMAIN states :
         (/\ pc[p] # "idle"
          /\ ~GetFailed(p)
          /\ PrevPromptFailedOnEntry(keyFunc(update[p]), S)
          /\ rd[p].exists \/ initialState = S) =>
            PromptsFirst(p, S)

\* the prompt failed on entry for a key without a record, and the next call
\* for the key invoked it again, stored the mark and returned
PromptFailureOnEntryWitness ==
    \E p \in Procs : \E S \in DOMAIN states :
       /\ pc[p] = "done"
       /\ PrevPromptFailedOnEntry(keyFunc(update[p]), S)
       /\ ~rd[p].exists
       /\ Len(ev[p]) = 2
       /\ ev[p][1].op = "Prompt" /\ ev[p][1].name = S /\ ev[p][1].err = Nil
       /\ Stored(p).exists /\ Stored(p).userState.PromptSent


\* goroutine p's call has returned: its handler succeeded, the transition
\* was stored, and the prompt of the next state then failed
PartialFailure(p) ==
    /\ pc[p] = "done"
    /\ Len(ev[p]) = 3
    /\ ev[p][1].op = "Handle" /\ ev[p][1].err = Nil
    /\ ev[p][2].op = "Set" /\ ev[p][2].err = Nil
    /\ ev[p][3].op = "Prompt" /\ ev[p][3].err # Nil

\* the last finished call for key k ended that way, with next state X
PrevPartialFailure(k, X) ==
    /\ Len(prev[k].ev) = 3
    /\ prev[k].ev[1].op = "Handle"
    /\ prev[k].ev[3].op = "Prompt" /\ prev[k].ev[3].name = X
    /\ prev[k].ev[3].err # Nil

\* goroutine p's call has returned after a prompt and its Set succeeded
PromptDelivered(p) ==
    /\ pc[p] = "done"
    /\ Len(ev[p]) = 2
    /\ ev[p][1].op = "Prompt" /\ ev[p][1].err = Nil
    /\ ev[p][2].op = "Set" /\ ev[p][2].err = Nil

\* C14: with Handle calls one after another, if a handler succeeds with a
\* registered next state X that has a prompt and X's prompt fails in the
\* same call, the stored record is (X, promptSent = false, the handler's
\* payload) and the call returns the prompt's error; the next call for the
\* key whose Get succeeds invokes X's prompt and no handler, and when the
\* prompt and its Set succeed the stored record is (X, promptSent = true)
\* and the call returns (true, nil).
PartialFailureRetriesPrompt ==
    /\ \A p \in Procs :
         PartialFailure(p) =>
            /\ ev[p][3].name = nextState[p]
            /\ HasPrompt(nextState[p])
            /\ Stored(p) = [userState |-> [CurrentState |-> nextState[p],
                                           Data |-> ev[p][1].rec.Data,
                                           PromptSent |-> FALSE],
                            exists |-> TRUE]
            /\ ret[p].err = ev[p][3].err
    /\ \A p \in Procs : \A X \in DOMAIN states :
         (/\ pc[p] # "idle"
          /\ ~GetFailed(p)
          /\ PrevPartialFailure(keyFunc(update[p]), X)) =>
            /\ PromptsFirst(p, X)
            /\ HandleEvents(p) = {}
            /\ PromptDelivered(p) =>
                 /\ Stored(p).exists
                 /\ Stored(p).userState.CurrentState = X
                 /\ Stored(p).userState.PromptSent
                 /\ Stored(p).userState = ev[p][2].rec
                 /\ ret[p] = Ret(TRUE, Nil)

\* after a partial failure the next call delivered the prompt; the handler
\* of the first call had changed the payload
PartialFailureRetriesPromptWitness ==
    \E p \in Procs : \E X \in DOMAIN states :
       /\ PromptDelivered(p)
       /\ PrevPartialFailure(keyFunc(update[p]), X)
       /\ rd[p].userState.Data # ZeroData


\* goroutine p's call has returned the error of a failed storage.Set
SetFailed(p) ==
    /\ pc[p] = "done"
    /\ ev[p] # <<>>
    /\ ev[p][Len(ev[p])].op = "Set"
    /\ ev[p][Len(ev[p])].err # Nil
    /\ ret[p].err = ev[p][Len(ev[p])].err

\* the failed Set is the one of the prompt that followed a transition
\* stored by the same call
SetFailedAfterTransition(p) ==
    /\ SetFailed(p)
    /\ Len(ev[p]) = 4
    /\ ev[p][2].op = "Set" /\ ev[p][2].err = Nil

\* a call that fails at storage.Get is one step, and it leaves storage as
\* it is
GetFailureKeepsStorage ==
    \A p \in Procs :
       (pc[p] = "idle" /\ GetFailed(p)') => storage' = storage

\* C15 as stated: whenever Handle returns an error of the storage backend
\* (a failed Get or a failed Set), the stored record of the key is the same
\* as before the call.
StorageFailureKeepsRecord ==
    /\ [](\A p \in Procs : SetFailed(p) => Stored(p) = rd[p])
    /\ [][GetFailureKeepsStorage]_vars

\* C15, amended: ... the same as before the call, unless the failed
\* operation is the Set that follows the next state's prompt after a
\* transition the same call has stored: then the stored record is the
\* transition's (X, promptSent = false, the handler's payload).
StorageFailureKeepsCommitted ==
    /\ [](\A p \in Procs :
            SetFailed(p) =>
               IF SetFailedAfterTransition(p)
               THEN Stored(p) = [userState |-> [CurrentState |-> nextState[p],
                                                Data |-> ev[p][1].rec.Data,
                                                PromptSent |-> FALSE],
                                 exists |-> TRUE]
               ELSE Stored(p) = rd[p])
    /\ [][GetFailureKeepsStorage]_vars

\* the Set after the next state's prompt failed, and the stored record is
\* not the one the call read
StorageFailureKeepsCommittedWitness ==
    \E p \in Procs :
       /\ SetFailedAfterTransition(p)
       /\ rd[p].exists
       /\ Stored(p) # rd[p]


\* the user callbacks goroutine p's call has invoked
Callbacks(p) == HandleEvents(p) \cup PromptEvents(p)

\* C16 as stated: a single Handle call invokes at most one user callback,
\* a prompt or a handler.
OneCallbackPerEvent ==
    \A p \in Procs : Cardinality(Callbacks(p)) <= 1

\* C16, amended: a single Handle call invokes at most one handler and at
\* most one prompt; it invokes both only when the handler comes first and
\* returns without error a next state other than "" and NopState that is
\* registered with a prompt, whose prompt is the second callback, invoked
\* after the transition is stored.
OneHandlerOnePrompt ==
    \A p \in Procs :
       /\ Cardinality(HandleEvents(p)) <= 1
       /\ Cardinality(PromptEvents(p)) <= 1
       /\ Cardinality(Callbacks(p)) = 2 =>
            /\ Len(ev[p]) >= 3
            /\ ev[p][1].op = "Handle" /\ ev[p][1].err = Nil
            /\ ev[p][2].op = "Set" /\ ev[p][2].err = Nil
            /\ ev[p][3].op = "Prompt" /\ ev[p][3].name = nextState[p]
            /\ ~EndOfFlow(nextState[p])
            /\ HasPrompt(nextState[p])

\* two calls for one key are in flight, and one of them has invoked a
\* handler and then the prompt of the next state
OneHandlerOnePromptWitness ==
    \E p, q \in Procs :
       /\ p # q
       /\ Cardinality(Callbacks(p)) = 2
       /\ pc[q] \notin {"idle", "done"}
       /\ keyFunc(update[p]) = keyFunc(update[q])


\* the Sets of goroutine p's call that commit a handler's transition, and
\* those that commit a delivered prompt
TransitionSets(p) == {i \in SetEvents(p) : i > 1 /\ ev[p][i - 1].op = "Handle"}
PromptSets(p) == {i \in SetEvents(p) : i > 1 /\ ev[p][i - 1].op = "Prompt"}

\* C17: within one Handle call, under any interleaving, every storage.Set
\* is issued right after a callback that returned success and writes what
\* that callback commits: after the handler the transition (next state,
\* promptSent = false, the handler's payload), after a prompt the mark (the
\* prompt's state, promptSent = true, the prompt's payload); a call issues
\* at most two Sets, at most one for the transition and at most one for a
\* prompt, and when it issues both, the order is handler, transition Set,
\* next state's prompt, promptSent Set.
WriteOrdering ==
    \A p \in Procs :
       /\ SetEvents(p) = TransitionSets(p) \cup PromptSets(p)
       /\ \A i \in SetEvents(p) : ev[p][i - 1].err = Nil
       /\ \A i \in TransitionSets(p) :
            ev[p][i].rec = [CurrentState |-> nextState[p],
                            Data |-> ev[p][i - 1].rec.Data,
                            PromptSent |-> FALSE]
       /\ \A i \in PromptSets(p) :
            ev[p][i].rec = [CurrentState |-> ev[p][i - 1].name,
                            Data |-> ev[p][i - 1].rec.Data,
                            PromptSent |-> TRUE]
       /\ Cardinality(SetEvents(p)) <= 2
       /\ Cardinality(TransitionSets(p)) <= 1
       /\ Cardinality(PromptSets(p)) <= 1
       /\ Cardinality(SetEvents(p)) = 2 =>
            /\ Len(ev[p]) = 4
            /\ ev[p][1].op = "Handle"
            /\ TransitionSets(p) = {2}
            /\ ev[p][3].op = "Prompt" /\ ev[p][3].name = nextState[p]
            /\ PromptSets(p) = {4}

\* a call has issued both Sets while another call for the key is in flight
WriteOrderingWitness ==
    \E p, q \in Procs :
       /\ p # q
       /\ pc[p] = "done"
       /\ Cardinality(SetEvents(p)) = 2
       /\ pc[q] \in {"prompt", "setPrompt", "handle", "setTrans"}
       /\ keyFunc(update[p]) = keyFunc(update[q])


\* the record of its key as goroutine p's call knows it: what it wrote
\* last, or what its Get returned
Known(p) ==
    IF \E i \in SetEvents(p) : ev[p][i].err = Nil
    THEN LET last == CHOOSE i \in SetEvents(p) :
                        /\ ev[p][i].err = Nil
                        /\ \A j \in SetEvents(p) : ev[p][j].err = Nil => j <= i
         IN  [userState |-> ev[p][last].rec, exists |-> TRUE]
    ELSE rd[p]

\* this step is a storage.Set of goroutine p's call that changes the
\* currentState of an existing record of its key
ChangesCurrentState(p) ==
    /\ pc[p] \in {"setTrans", "setPrompt"}
    /\ pc'[p] # pc[p]
    /\ Stored(p).exists
    /\ storage'[keyFunc(update[p])].CurrentState # Stored(p).userState.CurrentState

\* C18 as stated: in every execution, interleaved Handle calls for one key
\* included, a storage write made by Handle that changes the currentState
\* of an existing record writes promptSent = false.
PromptSentReset ==
    [][\A p \in Procs :
          ChangesCurrentState(p) =>
             ~storage'[keyFunc(update[p])].PromptSent]_vars

\* C18, amended: ... that changes the currentState of an existing record
\* which is still as the writing call read it or last wrote it writes
\* promptSent = false.
PromptSentResetOwnView ==
    [][\A p \in Procs :
          (ChangesCurrentState(p) /\ Stored(p) = Known(p)) =>
             ~storage'[keyFunc(update[p])].PromptSent]_vars

\* a call has stored a transition that changed the currentState of the
\* record it had read, while another call for the key is in flight
PromptSentResetOwnViewWitness ==
    \E p, q \in Procs :
       /\ p # q
       /\ pc[p] \in {"prompt", "done"}
       /\ Len(ev[p]) = 2
       /\ ev[p][2].op = "Set" /\ ev[p][2].err = Nil
       /\ rd[p].exists
       /\ rd[p].userState.CurrentState # nextState[p]
       /\ Stored(p) = Known(p)
       /\ pc[q] \in {"prompt", "setPrompt", "handle", "setTrans"}
       /\ keyFunc(update[p]) = keyFunc(update[q])


\* goroutine p's call found no record for its key, the initial state is
\* registered, and the call has returned without error
FirstSight(p) ==
    /\ pc[p] = "done"
    /\ ~GetFailed(p)
    /\ ~rd[p].exists
    /\ initialState \in DOMAIN states
    /\ ret[p].err = Nil

\* C19 as stated: for a key with no record, whenever the initial state is
\* registered, the first Handle call that returns without error leaves a
\* record for the key in storage.
FirstSightCreates ==
    \A p \in Procs : FirstSight(p) => Stored(p).exists

\* C19, amended: ... whenever the initial state is registered and declares
\* a prompt, the first call that returns without error leaves the record
\* (initial state, promptSent = true); when the initial state declares no
\* prompt, such a call leaves a record only if its handler returned a next
\* state without error, and the record names that next state.
FirstSightCreatesAfterPrompt ==
    \A p \in Procs :
       FirstSight(p) =>
          IF HasPrompt(initialState)
          THEN /\ Stored(p).exists
               /\ Stored(p).userState.CurrentState = initialState
               /\ Stored(p).userState.PromptSent
          ELSE /\ Stored(p).exists <=> TransitionDone(p)
               /\ Stored(p).exists =>
                    Stored(p).userState.CurrentState = nextState[p]

\* after a call for the key that returned an error, the first call that
\* returns without error has created the record
FirstSightCreatesAfterPromptWitness ==
    \E p \in Procs :
       /\ FirstSight(p)
       /\ HasPrompt(initialState)
       /\ prev[keyFunc(update[p])].ret.err # Nil
       /\ Stored(p).exists


\* C20: under any sequence or interleaving of Handle, Add and
\* SetInitialState, with failing callbacks and storage, no step removes a
\* record from storage: a key that has a record keeps having one.
RecordsNeverDeleted ==
    [][\A k \in DOMAIN storage : k \in DOMAIN storage']_vars

\* a call has stored the end of the flow over an existing record while
\* another call for the key is in flight, and the record is there
RecordsNeverDeletedWitness ==
    \E p, q \in Procs :
       /\ p # q
       /\ TransitionDone(p)
       /\ nextState[p] = ""
       /\ rd[p].exists
       /\ Stored(p).exists
       /\ pc[q] \in {"prompt", "setPrompt", "handle", "setTrans"}
       /\ keyFunc(update[p]) = keyFunc(update[q])


\* the name of the i-th state of the batch is in the table the call found,
\* or it is the name of a state earlier in the batch
Taken(batch, before, i) ==
    \/ batch[i].Name \in DOMAIN before
    \/ \E j \in 1..(i - 1) : batch[j].Name = batch[i].Name

\* the first state of the batch that Add cannot register, or 0
FirstRejected(batch, before) ==
    LET bad == {i \in 1..Len(batch) : batch[i].Name = "" \/ Taken(batch, before, i)}
    IN  IF bad = {} THEN 0 ELSE CHOOSE i \in bad : \A j \in bad : i <= j

\* no Add call changes or removes a definition that is in the table
TableOnlyGrows ==
    \A n \in DOMAIN states : n \in DOMAIN states' /\ states'[n] = states[n]

\* C21: when the first state of a batch that Add cannot register has a name
\* that is taken (by a state of an earlier Add call or by a state earlier in
\* the batch), Add returns an error that is ErrDuplicateState and not
\* ErrEmptyStateName; the table keeps, under every name, the definition
\* registered first, and no Add call ever replaces a definition.
DuplicateRejected ==
    /\ [](LET i == FirstRejected(added.batch, added.before)
          IN  (i > 0 /\ added.batch[i].Name # "") =>
                 /\ ErrorsIs(added.err, ErrDuplicateState)
                 /\ ~ErrorsIs(added.err, ErrEmptyStateName)
                 /\ \A n \in DOMAIN added.before : states[n] = added.before[n]
                 /\ \A j \in 1..(i - 1) : states[added.batch[j].Name] = added.batch[j])
    /\ [][TableOnlyGrows]_vars

\* the duplicate came later in the same batch, with another definition,
\* and the table has the first one
DuplicateRejectedWitness ==
    /\ Len(added.batch) = 2
    /\ added.batch[1].Name = added.batch[2].Name
    /\ added.batch[1] # added.batch[2]
    /\ added.batch[1].Name \notin DOMAIN added.before
    /\ ErrorsIs(added.err, ErrDuplicateState)
    /\ states[added.batch[1].Name] = added.batch[1]

\* C22: when the first state of a batch that Add cannot register has the
\* empty name, Add returns ErrEmptyStateName; after any sequence of Add
\* calls the table has no state under the name "" and every key of the table
\* is the Name of the state stored under it.
EmptyNameRejected ==
    /\ LET i == FirstRejected(added.batch, added.before)
       IN  (i > 0 /\ added.batch[i].Name = "") => added.err = ErrEmptyStateName
    /\ "" \notin DOMAIN states
    /\ \A n \in DOMAIN states : states[n].Name = n

\* a batch whose second state has the empty name was rejected
EmptyNameRejectedWitness ==
    /\ Len(added.batch) = 2
    /\ added.batch[1].Name # ""
    /\ added.batch[2].Name = ""
    /\ added.err = ErrEmptyStateName

\* C23: if an Add call returns an error, the table is what it was before
\* the call.
RejectedBatchAtomic ==
    added.err # Nil => states = added.before


\* the call of goroutine p is past storage.Get, for a key without a record
NewKeyCall(p) == pc[p] # "idle" /\ ~rd[p].exists

\* C24: SetInitialState stores the name it is given whether or not the name
\* is registered, and changes nothing else; Add does not change the initial
\* state.  So the manager is the same whichever of the two came first, and
\* every Handle call for a key without a record goes where the name last
\* given to SetInitialState and the table as it is now send it: ignored when
\* the name is not registered, otherwise to that state's prompt or handler.
SetupOrderIndependent ==
    /\ [](initialState = initSet.name)
    /\ [][initSet' # initSet => states' = states]_vars
    /\ [][states' # states => initialState' = initialState]_vars
    /\ [](\A p \in Procs : NewKeyCall(p) =>
            LET to == Dispatch(states, Seed(ZeroUserState, FALSE, initSet.name))
            IN  /\ to = "ignore" => pc[p] = "done" /\ ret[p] = Ignored /\ ev[p] = <<>>
                /\ to # "ignore" => ev[p] # <<>> \/ pc[p] = to
                /\ (to # "ignore" /\ ev[p] = <<>>) => state[p] = states[initSet.name]
                /\ (to = "prompt" /\ ev[p] # <<>>) =>
                       ev[p][1].op = "Prompt" /\ ev[p][1].name = initSet.name
                /\ (to = "handle" /\ ev[p] # <<>>) =>
                       ev[p][1].op = "Handle" /\ ev[p][1].name = initSet.name)

\* the initial state was named before it was registered, and a call for a
\* key without a record has been sent to it
SetupOrderIndependentWitness ==
    /\ initSet.early
    /\ initSet.name \in DOMAIN states
    /\ NewKeyCall(Caller)
    /\ ev[Caller] # <<>>
    /\ ev[Caller][1].name = initSet.name


\* ------------------------------------------------------------------------
\* The conversation of state_test.go with a user who may send any text any
\* number of times (TestStateManagerValidation: "", "invalid", "valid")
\* ------------------------------------------------------------------------

\* rejected inputs of one stay that the history keeps
MaxRejects == 2

\* the state the next call for key k is dispatched to, and the record it
\* works on
Seeded(k) ==
    LET got == StorageGet(storage, k)
    IN  Seed(got.userState, got.exists, initialState)

\* the next call for key k with this text invokes a handler that accepts it
Accepts(k, text) ==
    LET us == Seeded(k)
    IN  /\ Dispatch(states, us) = "handle"
        /\ \E r \in HandleResults(states[us.CurrentState], MockUpdate(k, text), us.Data) :
              r.err = Nil

\* the next call for key k delivers a prompt whatever the text
Prompts(k) == Dispatch(states, Seeded(k)) = "prompt"

\* sm.Handle(MockUpdate{ChatID: chatID, Text: text})
RetryBegin(text) == SeqBegin(MockUpdate(ChatID, text))

\* the user sends an input that the state they are in does not reject
ValidBegin ==
    \E t \in ScenarioTexts :
       /\ Prompts(ChatID) \/ Accepts(ChatID, t)
       /\ RetryBegin(t)

\* Handle has returned; the history keeps the rejected calls of the stay:
\* text, what Handle returned and what storage.Get returns after the call
RetryReturn ==
    /\ ReturnCore(Caller)
    /\ hist' = IF ValidationFailed(Caller)
               THEN IF Len(hist) < MaxRejects
                    THEN Append(hist, [text |-> update[Caller].Text,
                                       handled |-> ret[Caller].consumed,
                                       err |-> ret[Caller].err,
                                       got |-> rd[Caller]])
                    ELSE hist
               ELSE <<>>
    /\ UNCHANGED <<others, calls, prev>>

\* the steps of a Handle call once it has begun
RetrySteps ==
    \/ Prompt(Caller)
    \/ SetPrompt(Caller)
    \/ HandleOK(Caller)
    \/ HandleValidation(Caller)
    \/ SetTrans(Caller)
    \/ RetryReturn

NextRetry ==
    \/ \E t \in ScenarioTexts : RetryBegin(t)
    \/ RetrySteps

\* a Handle call that has begun runs to its return
SpecRetry == InitScenario /\ [][NextRetry]_vars /\ WF_vars(RetrySteps)

\* what the handler of the state in record us does with the text, when it
\* accepts it: the record Handle then stores first
Accepted(us, text) ==
    LET r == CHOOSE r \in HandleResults(states[us.CurrentState], MockUpdate(ChatID, text), us.Data) : r.err = Nil
    IN  Transition(WithData(us, r.data), r.next)

\* the key has reached the end of the flow
FlowEnded == Quiet(ChatID) /\ StorageGet(storage, ChatID).exists
                /\ StorageGet(storage, ChatID).userState.CurrentState = ""

\* C25: a call in which the handler rejects the input returns (true, nil)
\* and leaves the stored record as the call read it, so the next call is
\* dispatched to the same state with the same record; the first call in
\* which the handler accepts the input after any number of rejected inputs
\* stores the record that the handler's result gives on the record read by
\* the first rejected call; and if the user sends, again and again while the
\* flow has not ended, an input that the current state does not reject, the
\* key reaches the end of the flow.
ValidationRetryProgress ==
    /\ [](ValidationFailed(Caller) =>
            /\ ret[Caller] = Ret(TRUE, Nil)
            /\ Stored(Caller) = rd[Caller]
            /\ Seeded(ChatID).CurrentState = state[Caller].Name
            /\ Dispatch(states, Seeded(ChatID)) = "handle")
    /\ []((TransitionDone(Caller) /\ hist # <<>>) =>
            /\ hist[1].got = rd[Caller]
            /\ ev[Caller][2].op = "Set"
            /\ ev[Caller][2].rec = Accepted(hist[1].got.userState, update[Caller].Text)
            /\ ev[Caller][2].rec.CurrentState = nextState[Caller])
    /\ (SF_vars(ValidBegin) => <>FlowEnded)

\* the handler accepted an input after it had rejected MaxRejects inputs
ValidationRetryProgressWitness ==
    /\ TransitionDone(Caller)
    /\ Len(hist) = MaxRejects
    /\ Stored(Caller).userState.CurrentState = ""
    /\ Stored(Caller).userState.Data.Age > 0


\* goroutine p's last storage operation is a Get that has its result
GotResult(p) == storeOp[p].kind = "Get" /\ storeOp[p].pc \in {"read", "idle"}

\* C26: on both backends, a Get of a goroutine's own key that reaches the
\* store after the goroutine's last successful Set of that key returns that
\* Set's record, equal in state name, payload and promptSent, with
\* exists = true and no error, whatever the key held before.
StorageRoundTrip ==
    \A p \in Procs :
       (GotResult(p) /\ storeOp[p].key = p /\ storeOp[p].mine.exists
           /\ storeOp[p].reply # "error") =>
          storeOp[p].res = GetResult(storeOp[p].mine.userState, TRUE, Nil)

\* C27: on both backends, a Get of a key that no Set was ever called for,
\* when the store answers at all, returns the zero record with
\* exists = false and no error; Get creates nothing: the keys that have a
\* record are keys some Set was called for.
UnknownKeyGet ==
    /\ \A p \in Procs :
          (GotResult(p) /\ storeOp[p].key \notin everSet /\ storeOp[p].reply # "error") =>
             storeOp[p].res = GetResult(ZeroUserState, FALSE, Nil)
    /\ DOMAIN storage \subseteq everSet
    /\ DOMAIN remote \subseteq everSet

\* Redis answered redis.Nil for a key nobody Set while other keys have records
UnknownKeyGetWitness ==
    \E p \in Procs :
       /\ GotResult(p)
       /\ storeOp[p].key \notin everSet
       /\ storeOp[p].reply = "nil"
       /\ ~storeOp[p].res.exists
       /\ DOMAIN remote # {}

\* C28: on the in-memory backend, with goroutines calling Get and Set at
\* any time: the writer holds the lock alone, a Get reads only under the
\* read lock and never while the map is being written, every Get returns no
\* error and either not-found or a record that some Set stored whole, and a
\* Get of a key that only the calling goroutine writes returns that
\* goroutine's last Set record (or not-found before its first Set).
InMemoryConcurrencySafe ==
    backend = "InMemory" =>
       /\ mu.writer # 0 => mu.readers = {}
       /\ busy => mu.writer # 0 /\ storeOp[mu.writer].pc = "writing"
       /\ \A p \in Procs :
             /\ storeOp[p].pc \in {"locked", "writing", "stored"} <=> mu.writer = p
             /\ storeOp[p].pc \in {"rlocked", "read"} <=> p \in mu.readers
             /\ storeOp[p].pc = "rlocked" => ~busy
             /\ GotResult(p) =>
                   /\ storeOp[p].res.err = Nil
                   /\ \/ storeOp[p].res = GetResult(ZeroUserState, FALSE, Nil)
                      \/ /\ storeOp[p].res.exists
                         /\ storeOp[p].res.userState \in StoreRecords
                         /\ storeOp[p].key \in everSet
             /\ (GotResult(p) /\ storeOp[p].key = p) =>
                   storeOp[p].res = GetResult(storeOp[p].mine.userState,
                                              storeOp[p].mine.exists, Nil)

\* a goroutine holds the read lock with a record of the shared key that
\* another goroutine Set, while that goroutine waits to Set it again, and
\* has read back its own key before
InMemoryConcurrencySafeWitness ==
    \E p \in Procs, q \in Procs :
       /\ p # q
       /\ backend = "InMemory"
       /\ storeOp[p].pc = "read" /\ storeOp[p].key = 0
       /\ storeOp[p].res.exists
       /\ storeOp[q].kind = "Set" /\ storeOp[q].key = 0
       /\ storeOp[q].rec = storeOp[p].res.userState
       /\ storeOp[p].mine.exists
       /\ storeOp[q].mine.exists

\* C30: RedisStorage.Get returns (zero record, false, nil) when the server
\* answers redis.Nil, (zero record, false, err) when the GET fails or the
\* value cannot be decoded, and exists = true only together with a decoded
\* record and no error; a Handle call whose Get returns an error returns
\* (false, that error), invokes no callback and writes nothing.
RedisGetErrorMapping ==
    /\ [](backend = "Redis" =>
            \A p \in Procs :
               /\ (GotResult(p) /\ storeOp[p].reply = "nil") =>
                     storeOp[p].res = GetResult(ZeroUserState, FALSE, Nil)
               /\ (GotResult(p) /\ storeOp[p].reply = "error") =>
                     storeOp[p].res = GetResult(ZeroUserState, FALSE, ErrStorage)
               /\ (GotResult(p) /\ storeOp[p].reply = "bytes") =>
                     \/ storeOp[p].res = GetResult(ZeroUserState, FALSE, ErrUnmarshal)
                     \/ /\ storeOp[p].res.exists /\ storeOp[p].res.err = Nil
                        /\ \E r \in StoreRecords :
                              storeOp[p].res.userState = Unmarshal(Marshal(r)).val
               /\ (GotResult(p) /\ storeOp[p].res.exists) => storeOp[p].reply = "bytes"
               /\ pc[p] = "done" =>
                     /\ storeOp[p].res.err # Nil
                     /\ ret[p] = Ret(FALSE, storeOp[p].res.err)
                     /\ ev[p] = <<>>)
    /\ [][\A p \in Procs : (pc[p] = "idle" /\ pc'[p] = "done") =>
              remote' = remote /\ storage' = storage]_vars

\* a Handle call returned the decoding error of the value it found, and a
\* Get of another goroutine was answered with redis.Nil
RedisGetErrorMappingWitness ==
    \E p \in Procs, q \in Procs :
       /\ backend = "Redis"
       /\ pc[p] = "done" /\ ret[p] = Ret(FALSE, ErrUnmarshal)
       /\ storeOp[p].reply = "bytes"
       /\ GotResult(q) /\ storeOp[q].reply = "nil"


\* goroutine p's call has stored its transition over a record that is not
\* the one its Get returned
StaleSet(p) ==
    /\ pc[p] = "setTrans"
    /\ Stored(p) # rd[p]
    /\ Len(ev'[p]) = Len(ev[p]) + 1
    /\ ev'[p][Len(ev'[p])].op = "Set" /\ ev'[p][Len(ev'[p])].err = Nil

\* C29: Handle does not serialize its Get and its Set per key: the Set of a
\* transition replaces whatever the key holds at that moment, also a record
\* another call stored after this call's Get, with the record this call
\* made from what it read (the next state its handler returned, the payload
\* its handler left, promptSent = false); so of two calls that read the same
\* record and both return (true, nil) the stored record can be that of one
\* call only.
SameKeyRaceLastSetWins ==
    [][\A p \in Procs :
          StaleSet(p) =>
             /\ StorageGet(storage', keyFunc(update[p])) =
                   [userState |-> ev'[p][Len(ev'[p])].rec, exists |-> TRUE]
             /\ ev'[p][Len(ev'[p])].rec =
                   Transition(ev[p][1].rec, nextState[p])
             /\ ev[p][1].op = "Handle"
             /\ ret'[p] = Ret(TRUE, Nil)]_vars

\* two calls for the same key read the same record, both handlers returned
\* a next state, both Sets succeeded and both calls returned (true, nil);
\* the two stored different records, neither equal to the one read, and the
\* key holds the record of one of them
SameKeyRaceLastSetWinsWitness ==
    \E p \in Procs, q \in Procs :
       /\ p # q
       /\ pc[p] = "done" /\ pc[q] = "done"
       /\ keyFunc(update[p]) = keyFunc(update[q])
       /\ rd[p].exists /\ rd[p] = rd[q]
       /\ Len(ev[p]) = 2 /\ Len(ev[q]) = 2
       /\ TransitionDone(p) /\ TransitionDone(q)
       /\ ev[p][2].op = "Set" /\ ev[p][2].err = Nil
       /\ ev[q][2].op = "Set" /\ ev[q][2].err = Nil
       /\ ret[p] = Ret(TRUE, Nil) /\ ret[q] = Ret(TRUE, Nil)
       /\ ev[p][2].rec # ev[q][2].rec
       /\ ev[p][2].rec # rd[p].userState /\ ev[q][2].rec # rd[q].userState
       /\ ev[p][2].rec.CurrentState # ev[q][2].rec.CurrentState
       /\ ev[p][2].rec.Data # ev[q][2].rec.Data
       /\ Stored(q).userState = ev[q][2].rec


\* the last step of goroutine p's call so far is a Set that succeeded
LastSetOK(p) ==
    /\ ev[p] # <<>>
    /\ ev[p][Len(ev[p])].op = "Set"
    /\ ev[p][Len(ev[p])].err = Nil

\* the last callback of goroutine p's call so far is the prompt of state S,
\* and it returned nil
LastPromptOK(p, S) ==
    /\ ev[p] # <<>>
    /\ ev[p][Len(ev[p])].op = "Prompt"
    /\ ev[p][Len(ev[p])].err = Nil
    /\ ev[p][Len(ev[p])].name = S

\* C31: under any interleaving of Handle calls for the same or different
\* keys, with failing callbacks and storage, storage being written by
\* Handle only: every stored record with promptSent = true names a state
\* that is registered and declares a prompt, and every step that stores a
\* record with promptSent = true is made by a call for that key whose last
\* callback was the prompt of that state, returning nil.
PromptSentTruthful ==
    /\ [](\A k \in DOMAIN storage :
            storage[k].PromptSent => HasPrompt(storage[k].CurrentState))
    /\ [][\A k \in DOMAIN storage' :
            (storage'[k].PromptSent /\ StorageGet(storage, k).userState # storage'[k]) =>
               \E p \in Procs :
                  /\ keyFunc(update[p]) = k
                  /\ LastPromptOK(p, storage'[k].CurrentState)]_vars

\* a record with promptSent = true is stored while another call for the key
\* is past its handler, about to store a transition
PromptSentTruthfulWitness ==
    \E p \in Procs, q \in Procs :
       /\ p # q
       /\ keyFunc(update[p]) = keyFunc(update[q])
       /\ pc[p] = "done" /\ LastSetOK(p)
       /\ Stored(p).exists /\ Stored(p).userState.PromptSent
       /\ pc[q] = "setTrans"


\* goroutine p's call has returned (false, nil)
Unconsumed(p) == pc[p] = "done" /\ ret[p] = Ret(FALSE, Nil)

\* C32: under any interleaving, a call that returns (false, nil) has
\* invoked no prompt and no handler and has made no Set, and the step in
\* which it returns leaves storage as it is: it is a call whose state is not
\* registered, or has no handler and no prompt due.  Conversely a call that
\* invoked a callback returns consumed = true or an error.
UnconsumedUntouched ==
    /\ [](\A p \in Procs :
            /\ Unconsumed(p) =>
                  /\ ev[p] = <<>>
                  /\ \/ LookedUp(p) \notin DOMAIN states
                     \/ /\ states[LookedUp(p)].Handle = "nil"
                        /\ ~HasPrompt(LookedUp(p)) \/ rd[p].userState.PromptSent
            /\ (pc[p] = "done" /\ ev[p] # <<>>) =>
                  ret[p].consumed \/ ret[p].err # Nil)
    /\ [][\A p \in Procs :
            (pc[p] # "done" /\ pc'[p] = "done" /\ ret'[p] = Ret(FALSE, Nil)) =>
               pc[p] = "idle" /\ storage' = storage]_vars

\* a call for a key whose record names a registered state without a
\* handler has returned (false, nil)
UnconsumedUntouchedWitness ==
    \E p \in Procs :
       /\ Unconsumed(p)
       /\ rd[p].exists
       /\ LookedUp(p) \in DOMAIN states


\* the last step of goroutine p's call failed, and it is a prompt or the
\* Set that follows a prompt
PromptStepFailed(p) ==
    LET n == Len(ev[p])
    IN  /\ n >= 1
        /\ ev[p][n].err # Nil
        /\ \/ ev[p][n].op = "Prompt"
           \/ ev[p][n].op = "Set" /\ n >= 2 /\ ev[p][n - 1].op = "Prompt"

\* C33: under any interleaving, a call that returns an error returns
\* consumed = true exactly when the step that failed is a prompt or the Set
\* that follows a prompt; the error returned is that step's error; a failed
\* Get, a handler error that is not a validation failure and a failed Set
\* of a transition return consumed = false.
ConsumedOnFailure ==
    \A p \in Procs :
       (pc[p] = "done" /\ ret[p].err # Nil) =>
          /\ ret[p].consumed <=> PromptStepFailed(p)
          /\ ev[p] # <<>> => ret[p].err = ev[p][Len(ev[p])].err
          /\ ev[p] = <<>> => ret[p] = Ret(FALSE, ErrStorage)
          /\ (ev[p] # <<>> /\ ev[p][Len(ev[p])].op = "Handle") =>
                ~ret[p].consumed /\ ~IsValidation(ret[p].err)
          /\ (Len(ev[p]) >= 2 /\ ev[p][Len(ev[p])].op = "Set"
                /\ ev[p][Len(ev[p]) - 1].op = "Handle") => ~ret[p].consumed

\* the transition was stored, the next state's prompt was delivered, and
\* the Set that records promptSent = true failed
ConsumedOnFailureWitness ==
    \E p \in Procs :
       /\ pc[p] = "done"
       /\ Len(ev[p]) = 4
       /\ ev[p][3].op = "Prompt"
       /\ ev[p][4].op = "Set" /\ ev[p][4].err # Nil
       /\ ret[p] = Ret(TRUE, ErrStorage)


\* goroutine p's call has returned: the prompt of state S was delivered and
\* the Set that records promptSent = true failed
CommitFailed(p, S) ==
    LET n == Len(ev[p])
    IN  /\ pc[p] = "done"
        /\ n >= 2
        /\ ev[p][n - 1].op = "Prompt" /\ ev[p][n - 1].err = Nil /\ ev[p][n - 1].name = S
        /\ ev[p][n].op = "Set" /\ ev[p][n].err # Nil

\* the last finished call for key k ended that way
PrevCommitFailed(k, S) ==
    LET n == Len(prev[k].ev)
    IN  /\ n >= 2
        /\ prev[k].ev[n - 1].op = "Prompt" /\ prev[k].ev[n - 1].err = Nil
        /\ prev[k].ev[n - 1].name = S
        /\ prev[k].ev[n].op = "Set" /\ prev[k].ev[n].err # Nil

\* C34: with Handle calls one after another, when the prompt of state S is
\* delivered and the Set that records promptSent = true fails, the call
\* returns (true, the storage error) and the key has no record or a record
\* with promptSent = false: what the call's Get returned when the prompt
\* was due on entry, the transition's record (S, promptSent = false) when
\* the prompt followed a transition; the next call for the key whose Get
\* succeeds invokes the prompt of S again and no handler (for a key without
\* a record: while the initial state is not set to another name).
PromptRedelivery ==
    /\ \A p \in Procs : \A S \in DOMAIN states :
         CommitFailed(p, S) =>
            /\ ret[p] = Ret(TRUE, ErrStorage)
            /\ ~Stored(p).exists \/ ~Stored(p).userState.PromptSent
            /\ Len(ev[p]) = 2 => Stored(p) = rd[p]
            /\ Len(ev[p]) = 4 =>
                  /\ Stored(p).exists
                  /\ Stored(p).userState = ev[p][2].rec
                  /\ Stored(p).userState.CurrentState = S
    /\ \A p \in Procs : \A S \in DOMAIN states :
         (/\ pc[p] # "idle"
          /\ ~GetFailed(p)
          /\ PrevCommitFailed(keyFunc(update[p]), S)
          /\ rd[p].exists \/ initialState = S) =>
            /\ PromptsFirst(p, S)
            /\ HandleEvents(p) = {}

\* the Set after the prompt of a transition's next state failed, and the
\* next call for the key has delivered that prompt a second time
PromptRedeliveryWitness ==
    \E p \in Procs : \E S \in DOMAIN states :
       /\ pc[p] = "done"
       /\ PrevCommitFailed(keyFunc(update[p]), S)
       /\ Len(prev[keyFunc(update[p])].ev) = 4
       /\ Len(ev[p]) = 2
       /\ ev[p][1].op = "Prompt" /\ ev[p][1].name = S /\ ev[p][1].err = Nil
       /\ ev[p][2].op = "Set" /\ ev[p][2].err = Nil
       /\ Stored(p).exists /\ Stored(p).userState.PromptSent


\* goroutine p's call is past its Get, which returned no record or a record
\* with promptSent = false, and the state it looked up declares a prompt
PromptIsDue(p) ==
    /\ pc[p] # "idle"
    /\ ~GetFailed(p)
    /\ ~rd[p].userState.PromptSent
    /\ HasPrompt(LookedUp(p))

\* C35: under any interleaving, every call whose Get returns no record or a
\* record with promptSent = false, in a state that declares a prompt,
\* invokes that prompt as its first and only callback and no handler,
\* whatever other calls for the key are doing; so two calls for the same
\* key that read the same such record both deliver the prompt, and neither
\* event reaches the handler.
DuplicatePrompt ==
    \A p \in Procs :
       PromptIsDue(p) =>
          /\ PromptsFirst(p, LookedUp(p))
          /\ HandleEvents(p) = {}
          /\ Len(ev[p]) <= 2

\* two calls for the same key read the same record and both delivered the
\* prompt of the same state
DuplicatePromptWitness ==
    \E p \in Procs, q \in Procs :
       /\ p # q
       /\ keyFunc(update[p]) = keyFunc(update[q])
       /\ rd[p] = rd[q]
       /\ PromptIsDue(p) /\ PromptIsDue(q)
       /\ pc[p] = "done" /\ pc[q] = "done"
       /\ LastSetOK(p) /\ LastSetOK(q)
       /\ ev[p][1].op = "Prompt" /\ ev[p][1].err = Nil
       /\ ev[q][1].op = "Prompt" /\ ev[q][1].err = Nil
       /\ ev[p][1].name = ev[q][1].name
       /\ ret[p] = Ret(TRUE, Nil) /\ ret[q] = Ret(TRUE, Nil)


\* what the key of a call holds when nothing but the call itself has
\* written it since the call's Get: the record of the call's last Set that
\* succeeded, or what the Get returned
OwnOutcome(read, log) ==
    LET oks == {i \in 1..Len(log) : log[i].op = "Set" /\ log[i].err = Nil}
    IN  IF oks = {} THEN read
        ELSE [userState |-> log[CHOOSE i \in oks : \A j \in oks : j <= i].rec,
              exists |-> TRUE]

\* C36: with Handle calls for pairwise different keys at the same time
\* (failing callbacks and storage included): a step changes the record of
\* key k only if it is a Set of a call for k; a call's Get returns the
\* record of its own key; and at every moment of a call the record of its
\* key is what the call read or last Set, whatever the calls for other keys
\* do in between, so each call returns and leaves behind what it does when
\* it runs alone.
KeyIsolation ==
    /\ [](\A p \in Procs :
            (pc[p] # "idle" /\ ~GetFailed(p)) =>
               Stored(p) = OwnOutcome(rd[p], ev[p]))
    /\ [][\A k \in IsoKeys :
            StorageGet(storage', k) # StorageGet(storage, k) =>
               \E p \in Procs :
                  /\ pc[p] \in {"setPrompt", "setTrans"}
                  /\ pc'[p] # pc[p]
                  /\ keyFunc(update[p]) = k
                  /\ StorageGet(storage', k) = [userState |-> userState[p], exists |-> TRUE]]_vars
    /\ [][\A p \in Procs :
            (pc[p] = "idle" /\ pc'[p] # "idle" /\ ret'[p].err = Nil) =>
               rd'[p] = StorageGet(storage, keyFunc(update'[p]))]_vars

\* two calls for different keys overlap; each has stored a record for its
\* key and each key holds its call's record, the two records differing
KeyIsolationWitness ==
    \E p \in Procs, q \in Procs :
       /\ keyFunc(update[p]) # keyFunc(update[q])
       /\ pc[p] = "done" /\ pc[q] = "done"
       /\ LastSetOK(p) /\ LastSetOK(q)
       /\ rd[p].exists
       /\ Stored(p).userState # Stored(q).userState
       /\ Stored(p).userState = ev[p][Len(ev[p])].rec
       /\ Stored(q).userState = ev[q][Len(ev[q])].rec


\* ------------------------------------------------------------------------
\* A collaborator that writes records itself: the /start command of the
\* registration bot (examples/registeration-bot/main.go:108-120)
\* ------------------------------------------------------------------------

\* states the collaborator may name as the first of the conversation
StartNames == {"a", "b"}

\* createStartHandler: unless the stored payload has a name, the record of
\* the chat is replaced by UserState{CurrentState: first}
StartHandler(k, first) ==
    /\ AllIdle
    /\ LET got == StorageGet(storage, k)
       IN  storage' =
             IF ~got.exists \/ got.userState.Data.Name = <<>>
             THEN StorageSet(storage, k, [ZeroUserState EXCEPT !.CurrentState = first])
             ELSE storage
    /\ UNCHANGED <<others, mgr, locals, ghosts, logs>>

\* Handle calls one after another; between two calls the table may grow,
\* the initial state may be set again and the collaborator may run
NextSeed ==
    \/ \E b \in Batches : Add(b)
    \/ \E n \in InitialNames : SetInitialState(n)
    \/ \E k \in Keys, n \in StartNames : StartHandler(k, n)
    \/ \E u \in Updates : SeqBegin(u)
    \/ \E p \in Procs : Prompt(p)
    \/ \E p \in Procs : SetPrompt(p)
    \/ \E p \in Procs : HandleOK(p)
    \/ \E p \in Procs : HandleValidation(p)
    \/ \E p \in Procs : SetTrans(p)
    \/ \E p \in Procs : Return(p)

SpecSeed == Init /\ [][NextSeed]_vars

\* the call of goroutine p has not stored a transition yet
BeforeTransition(p) ==
    \A i \in 1..Len(ev[p]) : ev[p][i].op # "Set" \/ ev[p][i].rec.PromptSent

\* C37: the initial state is used only when Get reported exists = false.
\* A call whose Get found a record works on that record as it was read: it
\* is dispatched by the record's CurrentState whatever the initial state
\* is, and a record whose CurrentState names no registered state (the ""
\* left by the end of a flow) makes the call return (false, nil) with no
\* callback and no write.  A call whose Get found nothing starts from the
\* initial state.  SetInitialState changes no stored record.
SeedOnlyWhenMissing ==
    /\ [](\A p \in Procs :
            pc[p] # "idle" =>
              LET cur == IF rd[p].exists THEN rd[p].userState.CurrentState
                         ELSE initialState
              IN  /\ cur \notin DOMAIN states =>
                       /\ pc[p] = "done"
                       /\ ret[p] = Ignored
                       /\ ev[p] = <<>>
                       /\ Stored(p) = rd[p]
                  /\ ev[p] # <<>> => ev[p][1].name = cur
                  /\ (pc[p] \in {"prompt", "handle"} /\ BeforeTransition(p)) =>
                       /\ userState[p].CurrentState = cur
                       /\ rd[p].exists =>
                            userState[p].PromptSent = rd[p].userState.PromptSent
                               \/ ev[p] # <<>>)
    /\ [][initialState' # initialState => storage' = storage]_vars

\* a call found the record left by the end of a flow, or the one the
\* collaborator wrote, while another initial state was set, and did not
\* start from the initial state
SeedOnlyWhenMissingWitness ==
    \E p \in Procs :
      /\ pc[p] = "done"
      /\ rd[p].exists
      /\ initialState \in DOMAIN states
      /\ rd[p].userState.CurrentState # initialState
      /\ \/ /\ rd[p].userState.CurrentState = ""
            /\ ev[p] = <<>>
         \/ /\ rd[p].userState.CurrentState \in StartNames
            /\ ev[p] # <<>>
            /\ ev[p][1].name = rd[p].userState.CurrentState


\* goroutine p's call has returned and its handler returned the name of
\* the state it belongs to, and no error
SelfTransition(p) ==
    /\ TransitionDone(p)
    /\ nextState[p] = ev[p][1].name

\* returning NopState or failing validation invokes no prompt; a validation
\* failure stores nothing either
NoPromptOtherwise(p) ==
    /\ (TransitionDone(p) /\ nextState[p] = NopState) => PromptEvents(p) = {}
    /\ ValidationFailed(p) => PromptEvents(p) = {} /\ SetEvents(p) = {}

\* C38 as stated: when a handler returns the name of its own state, the
\* record with promptSent = false is persisted and, if the state declares a
\* prompt, the prompt is invoked again in the same call and promptSent =
\* true is persisted; returning NopState or failing validation invokes no
\* prompt.
SelfTransitionReentersAsStated ==
    \A p \in Procs :
       /\ SelfTransition(p) =>
            /\ TransitionPersisted(p, ev[p][1].name)
            /\ ret[p] = Ret(TRUE, Nil)
            /\ IF HasPrompt(ev[p][1].name)
               THEN PromptedInSameCall(p, ev[p][1].name)
               ELSE NotPrompted(p)
       /\ NoPromptOtherwise(p)

\* C38, amended: as stated for every state whose name is not NopState; the
\* handler of a state registered under the name NopState that returns its
\* own name has returned NopState, and no prompt is invoked.
SelfTransitionReenters ==
    \A p \in Procs :
       /\ SelfTransition(p) =>
            /\ TransitionPersisted(p, ev[p][1].name)
            /\ ret[p] = Ret(TRUE, Nil)
            /\ IF HasPrompt(ev[p][1].name) /\ ev[p][1].name # NopState
               THEN PromptedInSameCall(p, ev[p][1].name)
               ELSE NotPrompted(p)
       /\ NoPromptOtherwise(p)

\* the handler of a state with a prompt, entered with promptSent = true,
\* returned the state's own name: the prompt ran again in the same call
SelfTransitionReentersWitness ==
    \E p \in Procs :
       /\ SelfTransition(p)
       /\ ev[p][1].name # NopState
       /\ HasPrompt(ev[p][1].name)
       /\ rd[p].exists /\ rd[p].userState.PromptSent
       /\ rd[p].userState.CurrentState = ev[p][1].name
       /\ Len(ev[p]) = 4
       /\ ev[p][2].rec.PromptSent = FALSE
       /\ ev[p][3].op = "Prompt" /\ ev[p][3].name = ev[p][1].name
       /\ Stored(p).userState.PromptSent


\* ------------------------------------------------------------------------
\* States without a handler (state.go:82-90)
\* ------------------------------------------------------------------------

\* the states offered to Add, and one that only has a prompt
NoHandlerPool == StatePool \cup {State("a", "any", "nil")}

NoHandlerBatches == UNION {[1..n -> NoHandlerPool] : n \in 0..MaxBatch}

\* Handle calls one after another; between two calls the table may grow,
\* the initial state may be set again and the collaborator may run
NextNoHandler ==
    \/ \E b \in NoHandlerBatches : Add(b)
    \/ \E n \in InitialNames : SetInitialState(n)
    \/ \E k \in Keys, n \in StartNames : StartHandler(k, n)
    \/ \E u \in Updates : SeqBegin(u)
    \/ \E p \in Procs : Prompt(p)
    \/ \E p \in Procs : SetPrompt(p)
    \/ \E p \in Procs : HandleOK(p)
    \/ \E p \in Procs : HandleValidation(p)
    \/ \E p \in Procs : SetTrans(p)
    \/ \E p \in Procs : Return(p)

SpecNoHandler == Init /\ [][NextNoHandler]_vars

\* the record us is in a registered state without a handler whose prompt is
\* not due: the state declares no prompt, or promptSent = true
NoHandlerNotDue(us) ==
    /\ us.CurrentState \in DOMAIN states
    /\ states[us.CurrentState].Handle = "nil"
    /\ states[us.CurrentState].Prompt = "nil" \/ us.PromptSent

\* the record a Handle call for key k would work on
Loaded(k) ==
    Seed(StorageGet(storage, k).userState, StorageGet(storage, k).exists, initialState)

\* key k has a record in a state without a handler whose prompt is not due
Stalled(k) == StorageGet(storage, k).exists /\ NoHandlerNotDue(Loaded(k))

\* C39: a Handle call for a key that is in a registered state whose Handle
\* callback is nil and whose prompt is not due returns (false, nil),
\* invokes no callback and writes nothing; a key with a record in such a
\* state stays in it until something other than Handle writes storage.
NoHandlerStalls ==
    /\ [](\A p \in Procs :
            (pc[p] # "idle"
               /\ NoHandlerNotDue(Seed(rd[p].userState, rd[p].exists, initialState))) =>
              /\ pc[p] = "done"
              /\ ret[p] = Ignored
              /\ ev[p] = <<>>
              /\ Stored(p) = rd[p])
    /\ [][\A k \in Keys :
            Stalled(k) =>
              \/ Stalled(k)' /\ StorageGet(storage', k) = StorageGet(storage, k)
              \/ AllIdle /\ pc' = pc /\ storage' # storage]_vars

\* a call for a key whose state only has a prompt, already sent, has
\* returned
NoHandlerStallsWitness ==
    \E p \in Procs :
       /\ pc[p] = "done"
       /\ rd[p].exists
       /\ rd[p].userState.PromptSent
       /\ NoHandlerNotDue(rd[p].userState)
       /\ states[rd[p].userState.CurrentState].Prompt # "nil"
       /\ ev[p] = <<>>
       /\ Stalled(keyFunc(update[p]))

====
